---- MODULE Spec2Model ----
(***************************************************************************)
(* Storage engine core of bustub: the buffer pool manager instance, the    *)
(* LRU-K replacer it drives and the extendible hash table it uses as its   *)
(* page table.  Every buffer pool operation runs under the pool latch      *)
(* (std::lock_guard on latch_), so each operation is one atomic action.    *)
(* The B+Tree index and its iterator, which keep their nodes in pages of   *)
(* the pool and take no latch, follow.                                     *)
(***************************************************************************)
EXTENDS Integers, Sequences, FiniteSets, TLC

\* ---------------------------------------------------------------- bounds
PoolSize == 2
ReplacerK == 2
BucketSize == 2
MaxPages == 3
MaxPin == 2
MaxClock == 2
MaxData == 1
MaxWritePage == 0
NumFrames == 2

INVALID_PAGE_ID == 0 - 1

Frames == 0 .. (PoolSize - 1)
PageIds == 0 .. (MaxPages - 1)
DataValues == 0 .. MaxData
ZeroData == 0

Pow2(n) == 2 ^ n

\* ------------------------------------------------- extendible hash table
\* A table is a record: global_depth_, dir_ (slot i of the C++ vector is
\* dir_[i + 1], holding an index into buckets), buckets (in creation order,
\* each with depth_ and list_ of <<key, value>> pairs) and num_buckets_.

Hash(key) == key

Bucket(depth) == [depth_ |-> depth, list_ |-> << >>]

ExtendibleHashTable ==
    [global_depth_ |-> 1,
     dir_          |-> << 1, 2 >>,
     buckets       |-> << Bucket(1), Bucket(1) >>,
     num_buckets_  |-> 2]

IndexOf(ht, key) == Hash(key) % Pow2(ht.global_depth_)

IsFull(bucket) == Len(bucket.list_) >= BucketSize

\* Position of key in the bucket's list, 0 when absent.
BucketPos(bucket, key) ==
    IF \E i \in 1 .. Len(bucket.list_) : bucket.list_[i][1] = key
    THEN CHOOSE i \in 1 .. Len(bucket.list_) :
             /\ bucket.list_[i][1] = key
             /\ \A j \in 1 .. (i - 1) : bucket.list_[j][1] # key
    ELSE 0

BucketFind(bucket, key) ==
    LET i == BucketPos(bucket, key)
    IN  IF i = 0 THEN [found |-> FALSE, value |-> INVALID_PAGE_ID]
        ELSE [found |-> TRUE, value |-> bucket.list_[i][2]]

BucketRemove(bucket, key) ==
    LET i == BucketPos(bucket, key)
    IN  IF i = 0 THEN bucket
        ELSE [bucket EXCEPT !.list_ =
                 SubSeq(bucket.list_, 1, i - 1) \o
                 SubSeq(bucket.list_, i + 1, Len(bucket.list_))]

BucketInsert(bucket, key, value) ==
    IF IsFull(bucket) THEN bucket
    ELSE LET i == BucketPos(bucket, key)
         IN  IF i # 0 THEN [bucket EXCEPT !.list_[i] = << key, value >>]
             ELSE [bucket EXCEPT !.list_ = Append(bucket.list_, << key, value >>)]

HTFind(ht, key) == BucketFind(ht.buckets[ht.dir_[IndexOf(ht, key) + 1]], key)

\* Mutant: the victim's entry is left in the table.
HTRemoveKeepsEntry(ht, key) == ht

HTRemove(ht, key) ==
    LET b == ht.dir_[IndexOf(ht, key) + 1]
    IN  [ht EXCEPT !.buckets[b] = BucketRemove(ht.buckets[b], key)]

\* The bit of h selected by the mask 1 << depth.
DepthBit(h, depth) == (h \div Pow2(depth)) % 2

RECURSIVE InsertAll(_, _)
InsertAll(bucket, items) ==
    IF items = << >> THEN bucket
    ELSE InsertAll(BucketInsert(bucket, Head(items)[1], Head(items)[2]), Tail(items))

RECURSIVE RemoveAll(_, _)
RemoveAll(bucket, items) ==
    IF items = << >> THEN bucket
    ELSE RemoveAll(BucketRemove(bucket, Head(items)[1]), Tail(items))

\* Mutant: only the slot the key indexed is redirected, the other slots that
\* referred to the bucket are left as they were.
SplitBucketOneSlot(ht, b, dir_index) ==
    LET bucket   == ht.buckets[b]
        depth    == bucket.depth_
        cur_bit  == DepthBit(Hash(Head(bucket.list_)[1]), depth)
        moving   == SelectSeq(bucket.list_,
                              LAMBDA item : DepthBit(Hash(item[1]), depth) # cur_bit)
        new_bucket == InsertAll(Bucket(depth + 1), moving)
        nb       == Len(ht.buckets) + 1
        new_dir  == [s \in 1 .. Len(ht.dir_) |->
                        IF s - 1 = dir_index
                        THEN IF DepthBit(s - 1, depth) = cur_bit THEN b ELSE nb
                        ELSE ht.dir_[s]]
        old_bucket == [RemoveAll(bucket, moving) EXCEPT !.depth_ = depth + 1]
    IN  [ht EXCEPT !.dir_ = new_dir,
                   !.buckets = Append([ht.buckets EXCEPT ![b] = old_bucket], new_bucket)]

SplitBucket(ht, b, dir_index) ==
    LET bucket   == ht.buckets[b]
        depth    == bucket.depth_
        cur_bit  == DepthBit(Hash(Head(bucket.list_)[1]), depth)
        moving   == SelectSeq(bucket.list_,
                              LAMBDA item : DepthBit(Hash(item[1]), depth) # cur_bit)
        new_bucket == InsertAll(Bucket(depth + 1), moving)
        nb       == Len(ht.buckets) + 1
        low      == dir_index % Pow2(depth)
        slots    == { (i * Pow2(depth)) + low :
                          i \in 0 .. (Pow2(ht.global_depth_ - depth) - 1) }
        new_dir  == [s \in 1 .. Len(ht.dir_) |->
                        IF (s - 1) \in slots
                        THEN IF DepthBit(s - 1, depth) = cur_bit THEN b ELSE nb
                        ELSE ht.dir_[s]]
        old_bucket == [RemoveAll(bucket, moving) EXCEPT !.depth_ = depth + 1]
    IN  [ht EXCEPT !.dir_ = new_dir,
                   !.buckets = Append([ht.buckets EXCEPT ![b] = old_bucket], new_bucket)]

\* InsertInternal that splits a full bucket once and does not retry: the key
\* goes to the bucket of its slot whether or not the split made room.
InsertInternalOnce(ht, key, value) ==
    LET dir_index == IndexOf(ht, key)
        b         == ht.dir_[dir_index + 1]
        bucket    == ht.buckets[b]
        grown     == IF bucket.depth_ = ht.global_depth_
                     THEN [ht EXCEPT !.dir_ = ht.dir_ \o ht.dir_,
                                     !.global_depth_ = ht.global_depth_ + 1]
                     ELSE ht
        split     == SplitBucket(grown, b, dir_index)
        nb        == split.dir_[IndexOf(split, key) + 1]
    IN  IF ~IsFull(bucket) \/ BucketFind(bucket, key).found
        THEN [ht EXCEPT !.buckets[b] = BucketInsert(bucket, key, value)]
        ELSE [split EXCEPT !.buckets[nb] = BucketInsert(split.buckets[nb], key, value)]

RECURSIVE InsertInternal(_, _, _)
InsertInternal(ht, key, value) ==
    LET dir_index == IndexOf(ht, key)
        b         == ht.dir_[dir_index + 1]
        bucket    == ht.buckets[b]
    IN  IF ~IsFull(bucket)
        THEN [ht EXCEPT !.buckets[b] = BucketInsert(bucket, key, value)]
        ELSE IF BucketFind(bucket, key).found
        THEN [ht EXCEPT !.buckets[b] = BucketInsert(bucket, key, value)]
        ELSE LET grown == IF bucket.depth_ = ht.global_depth_
                          THEN [ht EXCEPT !.dir_ = ht.dir_ \o ht.dir_,
                                          !.global_depth_ = ht.global_depth_ + 1]
                          ELSE ht
             IN  InsertInternal(SplitBucket(grown, b, dir_index), key, value)

HTInsert(ht, key, value) == InsertInternal(ht, key, value)

\* Keys currently stored in the table, over all buckets.
HTKeys(ht) ==
    UNION { { ht.buckets[b].list_[i][1] : i \in 1 .. Len(ht.buckets[b].list_) } :
              b \in 1 .. Len(ht.buckets) }

\* Number of entries stored for key, over all buckets.
HTCount(ht, key) ==
    Cardinality({ << b, i >> \in (1 .. Len(ht.buckets)) \X (1 .. BucketSize) :
                      /\ i <= Len(ht.buckets[b].list_)
                      /\ ht.buckets[b].list_[i][1] = key })

\* ---------------------------------------------------------- LRU-K replacer
\* A replacer is a record: frame_index_map_ (tracked frame -> its
\* FrameAccessHistory: is_evictable_ and access_history_, most recent access
\* first) and frame_history_set_ (the std::set of candidates, kept as the set
\* of its frame ids; its order is FrameAccessHistoryOrderComparison).

LRUKReplacer(num_frames) ==
    [frame_index_map_ |-> << >>, frame_history_set_ |-> {},
     replacer_size_ |-> num_frames]

FrameAccessHistory == [is_evictable_ |-> FALSE, access_history_ |-> << >>]

\* FrameAccessHistory::RecordAccess: drop the oldest of k, push the new one.
FrameRecordAccess(h, now) ==
    LET hist == h.access_history_
        kept == IF Len(hist) >= ReplacerK THEN SubSeq(hist, 1, Len(hist) - 1) ELSE hist
    IN  [h EXCEPT !.access_history_ = << now >> \o kept]

GetKthAccessRecord(h) == h.access_history_[Len(h.access_history_)]

GetLastAccessRecord(h) == h.access_history_[Len(h.access_history_)]

\* TRUE when frame1 is ordered before frame2; Evict takes the last element.
FrameAccessHistoryOrderComparison(frame1, frame2) ==
    LET frame1_hist_available == Len(frame1.access_history_) = ReplacerK
        frame2_hist_available == Len(frame2.access_history_) = ReplacerK
        return_val ==
            IF frame1_hist_available /\ ~frame2_hist_available THEN FALSE
            ELSE IF frame2_hist_available /\ ~frame1_hist_available THEN TRUE
            ELSE IF ~frame2_hist_available /\ ~frame1_hist_available
            THEN GetLastAccessRecord(frame1) <= GetLastAccessRecord(frame2)
            ELSE GetKthAccessRecord(frame1) <= GetKthAccessRecord(frame2)
    IN  ~return_val

\* std::set::insert: an element equivalent to one already present is dropped.
SetInsert(r, frame_id) ==
    LET h == r.frame_index_map_[frame_id]
        equivalent(g) ==
            /\ ~FrameAccessHistoryOrderComparison(h, r.frame_index_map_[g])
            /\ ~FrameAccessHistoryOrderComparison(r.frame_index_map_[g], h)
    IN  IF \E g \in r.frame_history_set_ \ {frame_id} : equivalent(g)
        THEN r
        ELSE [r EXCEPT !.frame_history_set_ = @ \cup {frame_id}]

RemoveFrameFromSetInternal(r, frame_id) ==
    [r EXCEPT !.frame_history_set_ = @ \ {frame_id}]

\* The function m without the entry for frame_id.
MapErase(m, frame_id) == [f \in (DOMAIN m) \ {frame_id} |-> m[f]]

\* The function m with frame_id bound to h.
MapPut(m, frame_id, h) ==
    [f \in (DOMAIN m) \cup {frame_id} |-> IF f = frame_id THEN h ELSE m[f]]

\* The last element of the candidate set (rbegin).
EvictVictim(r) ==
    CHOOSE f \in r.frame_history_set_ :
        \A g \in r.frame_history_set_ \ {f} :
            FrameAccessHistoryOrderComparison(r.frame_index_map_[g], r.frame_index_map_[f])

\* Mutant: with no candidate, a tracked frame is evicted whatever its flag.
EvictIgnoresFlag(r) ==
    IF DOMAIN r.frame_index_map_ = {}
    THEN [ok |-> FALSE, frame_id |-> 0 - 1, replacer |-> r]
    ELSE LET v == IF r.frame_history_set_ # {} THEN EvictVictim(r)
                  ELSE CHOOSE f \in DOMAIN r.frame_index_map_ : TRUE
         IN  [ok |-> TRUE, frame_id |-> v,
              replacer |-> [r EXCEPT !.frame_index_map_ = MapErase(@, v),
                                     !.frame_history_set_ = @ \ {v}]]

Evict(r) ==
    IF r.frame_history_set_ = {}
    THEN [ok |-> FALSE, frame_id |-> 0 - 1, replacer |-> r]
    ELSE LET v == EvictVictim(r)
         IN  [ok |-> TRUE, frame_id |-> v,
              replacer |-> [r EXCEPT !.frame_index_map_ = MapErase(@, v),
                                     !.frame_history_set_ = @ \ {v}]]

RecordAccess(r, frame_id, now) ==
    IF frame_id \notin DOMAIN r.frame_index_map_
    THEN SetInsert([r EXCEPT !.frame_index_map_ =
                       MapPut(@, frame_id, FrameRecordAccess(FrameAccessHistory, now))],
                   frame_id)
    ELSE LET r1 == RemoveFrameFromSetInternal(r, frame_id)
             r2 == [r1 EXCEPT !.frame_index_map_[frame_id] = FrameRecordAccess(@, now)]
         IN  IF r2.frame_index_map_[frame_id].is_evictable_
             THEN SetInsert(r2, frame_id)
             ELSE r2

\* SetEvictable that leaves the frame's flag and the candidate set alone.
SetEvictableIgnored(r, frame_id, set_evictable) == r

\* Defined for a tracked frame; the code dereferences find() unchecked.
SetEvictable(r, frame_id, set_evictable) ==
    LET r1 == RemoveFrameFromSetInternal(r, frame_id)
        r2 == [r1 EXCEPT !.frame_index_map_[frame_id].is_evictable_ = set_evictable]
    IN  IF set_evictable /\ Cardinality(r2.frame_history_set_) < r2.replacer_size_
        THEN SetInsert(r2, frame_id)
        ELSE r2

\* Remove calls exit(1) on a tracked frame that is not evictable.
RemoveExits(r, frame_id) ==
    /\ frame_id \in DOMAIN r.frame_index_map_
    /\ ~r.frame_index_map_[frame_id].is_evictable_

\* Mutant: the frame's entry is left in the replacer.
RemoveKeepsEntry(r, frame_id) == r

Remove(r, frame_id) ==
    IF frame_id \notin DOMAIN r.frame_index_map_ THEN r
    ELSE IF r.frame_index_map_[frame_id].is_evictable_
    THEN [r EXCEPT !.frame_index_map_ = MapErase(@, frame_id),
                   !.frame_history_set_ = @ \ {frame_id}]
    ELSE r

Size(r) == Cardinality(r.frame_history_set_)

\* ------------------------------------------------------ buffer pool manager
VARIABLES
    pages_,          \* frame -> Page: page_id_, pin_count_, is_dirty_, data_
    free_list_,      \* std::list of free frame ids, front first
    page_table_,     \* extendible hash table page id -> frame id
    replacer_,       \* LRU-K replacer
    next_page_id_,   \* next id AllocatePage hands out
    disk,            \* disk manager: page id -> payload last written
    clock,           \* last timestamp read from the system clock
    status,          \* "running", or "exited" after exit(1)
    ret,             \* the last call: operation, arguments, result, disk I/O
    held,            \* page id -> successful pins minus successful unpins
    latch_,          \* the pool mutex: the thread that holds it, 0 when free
    rwlatch_,        \* frame -> the page's rw-latch: writer (0: none), readers
    locked,          \* the mutexes of the replacer, of its frames' histories
                     \* and of the hash table: the thread holding each, 0: free
    pc,              \* thread -> the calls it still has to make, and where
                     \* it is in the first of them
    tree,            \* the B+Tree index: its root and the pages of its nodes
    iterator,        \* an IndexIterator over the tree
    reference        \* key -> value last stored and not removed (a plain map
                     \* kept beside the hash table or the tree it mirrors)

vars == << pages_, free_list_, page_table_, replacer_, next_page_id_, disk,
           clock, status, ret, held, latch_, rwlatch_, locked, pc, tree, iterator,
           reference >>

latch_vars == << latch_, rwlatch_, locked, pc >>

index_vars == << tree, iterator, reference >>

\* What the whole-call buffer pool actions leave alone.
idle_vars == << latch_vars, index_vars >>

Threads == 1 .. 2

\* No thread is inside a call and no latch is held: the state in which the
\* operations of the pool are taken one whole call at a time.
Quiescent ==
    /\ latch_ = 0
    /\ rwlatch_ = [f \in Frames |-> [writer |-> 0, readers |-> {}]]
    /\ locked = [replacer_   |-> 0,
                 page_table_ |-> 0,
                 frame_latch_ |-> [f \in 0 .. (NumFrames - 1) |-> 0]]
    /\ pc = [t \in Threads |-> [script |-> << >>, at |-> "call"]]

\* No index is built on the pool.
NoIndex ==
    /\ tree = << >>
    /\ iterator = << >>
    /\ reference = << >>

bpm_vars == << pages_, free_list_, page_table_, replacer_, next_page_id_, disk >>

Page == [page_id_ |-> INVALID_PAGE_ID, pin_count_ |-> 0,
         is_dirty_ |-> FALSE, data_ |-> ZeroData]

\* What the last call returned: result is the id of the page handed out by
\* NewPage / FetchPage (INVALID_PAGE_ID for nullptr and for the other calls),
\* io the ReadPage / WritePage calls it made on the disk manager, in order.
Ret(op, ok, result, io) ==
    [op |-> op, ok |-> ok, result |-> result, io |-> io]

Init ==
    /\ pages_ = [f \in Frames |-> Page]
    /\ free_list_ = [i \in 1 .. PoolSize |-> i - 1]
    /\ page_table_ = ExtendibleHashTable
    /\ replacer_ = LRUKReplacer(PoolSize)
    /\ next_page_id_ = 0
    /\ disk = [p \in PageIds \cup {INVALID_PAGE_ID} |-> ZeroData]
    /\ clock = 1
    /\ status = "running"
    /\ ret = Ret("Init", FALSE, INVALID_PAGE_ID, << >>)
    /\ held = [p \in PageIds |-> 0]
    /\ Quiescent
    /\ NoIndex

\* Timestamps the system clock can return next: it never runs backwards but
\* two successive reads may return the same value.
Now == { t \in {clock, clock + 1} : t <= MaxClock }

\* Mutant: the page is written but its dirty flag is left set.
FlushKeepsDirty(page, dsk) ==
    [page |-> page,
     disk |-> [dsk EXCEPT ![page.page_id_] = page.data_],
     io   |-> << << "W", page.page_id_ >> >>]

\* FlushPgImpInternal: write the page under its page id, clear the flag.
FlushPgImpInternal(page, dsk) ==
    [page |-> [page EXCEPT !.is_dirty_ = FALSE],
     disk |-> [dsk EXCEPT ![page.page_id_] = page.data_],
     io   |-> << << "W", page.page_id_ >> >>]

\* Mutant: the metadata reset leaves the page id in place.
ResetPageMetadataKeepsId(page) == [page EXCEPT !.is_dirty_ = FALSE]

ResetPageMetadata(page) ==
    [page EXCEPT !.is_dirty_ = FALSE, !.page_id_ = INVALID_PAGE_ID]

\* Mutant: the payload of the previous occupant is left in the frame.
ResetMemoryKeepsData(page) == page

ResetMemory(page) == [page EXCEPT !.data_ = ZeroData]

\* Mutant: the frame is not marked non-evictable after its access is recorded.
PostWithoutSetEvictable(pt, rep, page_id, frame_id, now) ==
    [page_table |-> HTInsert(pt, page_id, frame_id),
     replacer   |-> RecordAccess(rep, frame_id, now)]

\* Mutant: a frame that is already tracked gets no access recorded.
PostWithoutRecordAccess(pt, rep, page_id, frame_id, now) ==
    [page_table |-> HTInsert(pt, page_id, frame_id),
     replacer   |-> IF frame_id \in DOMAIN rep.frame_index_map_
                    THEN SetEvictable(rep, frame_id, FALSE)
                    ELSE SetEvictable(RecordAccess(rep, frame_id, now), frame_id, FALSE)]

\* PostSuccessfullPageAllocation, as the pair of the new table and replacer.
PostSuccessfullPageAllocation(pt, rep, page_id, frame_id, now) ==
    [page_table |-> HTInsert(pt, page_id, frame_id),
     replacer   |-> SetEvictable(RecordAccess(rep, frame_id, now), frame_id, FALSE)]

\* Mutant: the counter is incremented before the id is taken (++next_page_id_).
AllocatePagePreIncrement(next) == [page_id |-> next + 1, next_page_id |-> next + 1]

\* AllocatePage: the id handed out and the counter after next_page_id_++.
AllocatePage(next) == [page_id |-> next, next_page_id |-> next + 1]

\* Mutant: a hit on a resident page takes no pin.
PinPageNoIncrement(page) == page

\* The pin FetchPgImp takes on a page that is already resident.
PinPage(page) == [page EXCEPT !.pin_count_ = page.pin_count_ + 1]

\* Mutant: the victim's dirty flag is cleared without the write to disk.
FlushIfDirtySkipsWrite(page, dsk) ==
    [page |-> [page EXCEPT !.is_dirty_ = FALSE], disk |-> dsk, io |-> << >>]

\* The victim's frame after the flush-if-dirty step of NewPgImp / FetchPgImp.
FlushIfDirty(page, dsk) ==
    IF page.is_dirty_ THEN FlushPgImpInternal(page, dsk)
    ELSE [page |-> page, disk |-> dsk, io |-> << >>]

NewPgImp ==
    /\ status = "running"
    /\ next_page_id_ < MaxPages
    /\ UNCHANGED status
    /\ IF free_list_ # << >>
       THEN \E now \in Now :
            LET allocated     == AllocatePage(next_page_id_)
                new_page_id   == allocated.page_id
                free_frame_id == Head(free_list_)
                free_page     == [ResetMemory(ResetPageMetadata(pages_[free_frame_id]))
                                     EXCEPT !.page_id_ = new_page_id, !.pin_count_ = 1]
                post == PostSuccessfullPageAllocation(page_table_, replacer_,
                                                      new_page_id, free_frame_id, now)
            IN  /\ next_page_id_' = allocated.next_page_id
                /\ free_list_' = Tail(free_list_)
                /\ pages_' = [pages_ EXCEPT ![free_frame_id] = free_page]
                /\ page_table_' = post.page_table
                /\ replacer_' = post.replacer
                /\ clock' = now
                /\ disk' = disk
                /\ held' = [held EXCEPT ![new_page_id] = @ + 1]
                /\ ret' = Ret("NewPage", TRUE, new_page_id, << >>)
       ELSE LET ev == Evict(replacer_)
            IN  IF ev.ok
                THEN \E now \in Now :
                     LET free_frame_id == ev.frame_id
                         victim      == pages_[free_frame_id]
                         allocated   == AllocatePage(next_page_id_)
                         new_page_id == allocated.page_id
                         flushed     == FlushIfDirty(victim, disk)
                         free_page   == [ResetMemory(ResetPageMetadata(flushed.page))
                                            EXCEPT !.page_id_ = new_page_id,
                                                   !.pin_count_ = 1]
                         post == PostSuccessfullPageAllocation(
                                     HTRemove(page_table_, victim.page_id_),
                                     ev.replacer, new_page_id, free_frame_id, now)
                     IN  /\ next_page_id_' = allocated.next_page_id
                         /\ free_list_' = free_list_
                         /\ pages_' = [pages_ EXCEPT ![free_frame_id] = free_page]
                         /\ page_table_' = post.page_table
                         /\ replacer_' = post.replacer
                         /\ clock' = now
                         /\ disk' = flushed.disk
                         /\ held' = [held EXCEPT ![new_page_id] = @ + 1]
                         /\ ret' = Ret("NewPage", TRUE, new_page_id, flushed.io)
                ELSE /\ UNCHANGED << bpm_vars, clock, held >>
                     /\ ret' = Ret("NewPage", FALSE, INVALID_PAGE_ID, << >>)

FetchPgImp(page_id) ==
    /\ status = "running"
    /\ page_id < next_page_id_
    /\ UNCHANGED << status, next_page_id_ >>
    /\ LET found == HTFind(page_table_, page_id)
       IN  IF found.found
           THEN \E now \in Now :
                LET frame_id == found.value
                    post == PostSuccessfullPageAllocation(page_table_, replacer_,
                                                          page_id, frame_id, now)
                IN  /\ pages_[frame_id].pin_count_ < MaxPin
                    /\ pages_' = [pages_ EXCEPT ![frame_id] = PinPage(pages_[frame_id])]
                    /\ page_table_' = post.page_table
                    /\ replacer_' = post.replacer
                    /\ clock' = now
                    /\ UNCHANGED << free_list_, disk >>
                    /\ held' = [held EXCEPT ![page_id] = @ + 1]
                    /\ ret' = Ret("FetchPage", TRUE, page_id, << >>)
           ELSE IF free_list_ # << >>
           THEN \E now \in Now :
                LET frame_id == Head(free_list_)
                    existing_page == [ResetMemory(pages_[frame_id])
                                         EXCEPT !.data_ = disk[page_id],
                                                !.page_id_ = page_id,
                                                !.pin_count_ = 1]
                    post == PostSuccessfullPageAllocation(page_table_, replacer_,
                                                          page_id, frame_id, now)
                IN  /\ free_list_' = Tail(free_list_)
                    /\ pages_' = [pages_ EXCEPT ![frame_id] = existing_page]
                    /\ page_table_' = post.page_table
                    /\ replacer_' = post.replacer
                    /\ clock' = now
                    /\ disk' = disk
                    /\ held' = [held EXCEPT ![page_id] = @ + 1]
                    /\ ret' = Ret("FetchPage", TRUE, page_id, << << "R", page_id >> >>)
           ELSE LET ev == Evict(replacer_)
                IN  IF ev.ok
                    THEN \E now \in Now :
                         LET frame_id == ev.frame_id
                             victim   == pages_[frame_id]
                             flushed  == FlushIfDirty(victim, disk)
                             existing_page ==
                                 [ResetMemory(ResetPageMetadata(flushed.page))
                                     EXCEPT !.data_ = flushed.disk[page_id],
                                            !.page_id_ = page_id,
                                            !.pin_count_ = 1]
                             post == PostSuccessfullPageAllocation(
                                         HTRemove(page_table_, victim.page_id_),
                                         ev.replacer, page_id, frame_id, now)
                         IN  /\ free_list_' = free_list_
                             /\ pages_' = [pages_ EXCEPT ![frame_id] = existing_page]
                             /\ page_table_' = post.page_table
                             /\ replacer_' = post.replacer
                             /\ clock' = now
                             /\ disk' = flushed.disk
                             /\ held' = [held EXCEPT ![page_id] = @ + 1]
                             /\ ret' = Ret("FetchPage", TRUE, page_id,
                                           flushed.io \o << << "R", page_id >> >>)
                    ELSE /\ UNCHANGED << bpm_vars, clock, held >>
                         /\ ret' = Ret("FetchPage", FALSE, INVALID_PAGE_ID, << >>)

\* Mutant: unpinning is refused only below zero, not at zero.
UnpinRefusedBelowZero(page) == page.pin_count_ < 0

\* The test on which UnpinPgImp returns false for a resident page.
UnpinRefused(page) == page.pin_count_ <= 0

\* Mutant: the flag is assigned from the argument, so false clears it.
MarkDirtyAssigns(page, is_dirty) == [page EXCEPT !.is_dirty_ = is_dirty]

\* if (is_dirty) is_dirty_ = is_dirty: the flag is set, never cleared.
MarkDirty(page, is_dirty) ==
    IF is_dirty THEN [page EXCEPT !.is_dirty_ = is_dirty] ELSE page

UnpinPgImp(page_id, is_dirty) ==
    /\ status = "running"
    /\ UNCHANGED << status, free_list_, page_table_, next_page_id_, disk, clock >>
    /\ LET found == HTFind(page_table_, page_id)
       IN  IF ~found.found
           THEN /\ UNCHANGED << pages_, replacer_, held >>
                /\ ret' = Ret("UnpinPage", FALSE, INVALID_PAGE_ID, << >>)
           ELSE LET frame_id == found.value
                    existing_page == pages_[frame_id]
                IN  IF UnpinRefused(existing_page)
                    THEN /\ UNCHANGED << pages_, replacer_, held >>
                         /\ ret' = Ret("UnpinPage", FALSE, INVALID_PAGE_ID, << >>)
                    ELSE LET marked == MarkDirty(existing_page, is_dirty)
                             unpinned == IF marked.pin_count_ = 0 THEN marked
                                         ELSE [marked EXCEPT !.pin_count_ = @ - 1]
                         IN  /\ pages_' = [pages_ EXCEPT ![frame_id] = unpinned]
                             /\ replacer_' = IF unpinned.pin_count_ = 0
                                             THEN SetEvictable(replacer_, frame_id, TRUE)
                                             ELSE replacer_
                             /\ held' = [held EXCEPT ![page_id] = @ - 1]
                             /\ ret' = Ret("UnpinPage", TRUE, INVALID_PAGE_ID, << >>)

FlushPgImp(page_id) ==
    /\ status = "running"
    /\ UNCHANGED << status, free_list_, page_table_, replacer_, next_page_id_,
                    clock, held >>
    /\ LET found == HTFind(page_table_, page_id)
       IN  IF ~found.found
           THEN /\ UNCHANGED << pages_, disk >>
                /\ ret' = Ret("FlushPage", FALSE, INVALID_PAGE_ID, << >>)
           ELSE LET frame_id == found.value
                    flushed  == FlushPgImpInternal(pages_[frame_id], disk)
                IN  /\ pages_' = [pages_ EXCEPT ![frame_id] = flushed.page]
                    /\ disk' = flushed.disk
                    /\ ret' = Ret("FlushPage", TRUE, INVALID_PAGE_ID, flushed.io)

\* The loop of FlushAllPgsImp from frame_id on, as the final pages, disk and I/O.
RECURSIVE FlushAllFrom(_, _, _, _)
FlushAllFrom(frame_id, pgs, dsk, io) ==
    IF frame_id >= PoolSize THEN [pages |-> pgs, disk |-> dsk, io |-> io]
    ELSE LET flushed == FlushPgImpInternal(pgs[frame_id], dsk)
         IN  FlushAllFrom(frame_id + 1, [pgs EXCEPT ![frame_id] = flushed.page],
                          flushed.disk, io \o flushed.io)

FlushAllPgsImp ==
    /\ status = "running"
    /\ UNCHANGED << status, free_list_, page_table_, replacer_, next_page_id_,
                    clock, held >>
    /\ LET all == FlushAllFrom(0, pages_, disk, << >>)
       IN  /\ pages_' = all.pages
           /\ disk' = all.disk
           /\ ret' = Ret("FlushAllPages", TRUE, INVALID_PAGE_ID, all.io)

DeletePgImp(page_id) ==
    /\ UNCHANGED << next_page_id_, clock, held >>
    /\ status = "running"
    /\ LET found == HTFind(page_table_, page_id)
       IN  IF ~found.found
           THEN /\ UNCHANGED << bpm_vars, status >>
                /\ ret' = Ret("DeletePage", TRUE, INVALID_PAGE_ID, << >>)
           ELSE LET frame_id == found.value
                    existing_page == pages_[frame_id]
                IN  IF existing_page.pin_count_ > 0
                    THEN /\ UNCHANGED << bpm_vars, status >>
                         /\ ret' = Ret("DeletePage", FALSE, INVALID_PAGE_ID, << >>)
                    ELSE LET flushed == FlushIfDirty(existing_page, disk)
                             cleared == ResetMemory(ResetPageMetadata(flushed.page))
                         IN  /\ pages_' = [pages_ EXCEPT ![frame_id] = cleared]
                             /\ disk' = flushed.disk
                             /\ page_table_' = HTRemove(page_table_, page_id)
                             /\ IF RemoveExits(replacer_, frame_id)
                                THEN /\ status' = "exited"
                                     /\ UNCHANGED << replacer_, free_list_ >>
                                ELSE /\ status' = status
                                     /\ replacer_' = Remove(replacer_, frame_id)
                                     /\ free_list_' = Append(free_list_, frame_id)
                             /\ ret' = Ret("DeletePage", TRUE, INVALID_PAGE_ID, flushed.io)

\* A caller that holds a pin on page_id stores a new payload in the page.
WriteData(page_id, data) ==
    /\ status = "running"
    /\ LET found == HTFind(page_table_, page_id)
       IN  /\ found.found
           /\ pages_[found.value].pin_count_ > 0
           /\ pages_[found.value].data_ # data
           /\ pages_' = [pages_ EXCEPT ![found.value].data_ = data]
           /\ ret' = Ret("WriteData", TRUE, INVALID_PAGE_ID, << >>)
    /\ UNCHANGED << free_list_, page_table_, replacer_, next_page_id_, disk, clock,
                    status, held >>

\* One caller at a time: each call runs from taking latch_ to releasing it
\* with no other call in between, and leaves every latch free.
Next ==
    \/ NewPgImp /\ UNCHANGED idle_vars
    \/ \E page_id \in PageIds : FetchPgImp(page_id) /\ UNCHANGED idle_vars
    \/ \E page_id \in PageIds, is_dirty \in BOOLEAN :
           /\ is_dirty => page_id <= MaxWritePage
           /\ UnpinPgImp(page_id, is_dirty)
           /\ UNCHANGED idle_vars
    \/ \E page_id \in PageIds : FlushPgImp(page_id) /\ UNCHANGED idle_vars
    \/ FlushAllPgsImp /\ UNCHANGED idle_vars
    \/ \E page_id \in PageIds : DeletePgImp(page_id) /\ UNCHANGED idle_vars
    \/ \E page_id \in 0 .. MaxWritePage, data \in DataValues :
           WriteData(page_id, data) /\ UNCHANGED idle_vars

Spec == Init /\ [][Next]_vars

\* ------------------------------------------------- the replacer on its own
\* A driver calls the public operations of one LRUKReplacer(NumFrames, k)
\* directly, on frame ids 0 .. NumFrames - 1; the buffer pool is not used.
ReplacerFrames == 0 .. (NumFrames - 1)

\* The frame ids the driver passes: the valid ones and one past the end (the
\* code takes any frame_id_t).
DriverFrameIds == 0 .. NumFrames

pool_vars == << pages_, free_list_, page_table_, next_page_id_, disk, held,
               tree, iterator, reference,
               latch_, rwlatch_, locked, pc >>

ReplacerInit ==
    /\ pages_ = [f \in Frames |-> Page]
    /\ free_list_ = [i \in 1 .. PoolSize |-> i - 1]
    /\ page_table_ = ExtendibleHashTable
    /\ replacer_ = LRUKReplacer(NumFrames)
    /\ next_page_id_ = 0
    /\ disk = [p \in PageIds \cup {INVALID_PAGE_ID} |-> ZeroData]
    /\ clock = 1
    /\ status = "running"
    /\ ret = Ret("Init", FALSE, 0 - 1, << >>)
    /\ held = [p \in PageIds |-> 0]
    /\ Quiescent
    /\ NoIndex

CallRecordAccess(frame_id) ==
    /\ status = "running"
    /\ \E now \in Now :
          /\ replacer_' = RecordAccess(replacer_, frame_id, now)
          /\ clock' = now
    /\ ret' = Ret("RecordAccess", TRUE, frame_id, << >>)
    /\ UNCHANGED << pool_vars, status >>

\* On an untracked frame the code dereferences frame_index_map_.end(): the
\* process dies on the invalid read.
CallSetEvictable(frame_id, set_evictable) ==
    /\ status = "running"
    /\ IF frame_id \in DOMAIN replacer_.frame_index_map_
       THEN /\ replacer_' = SetEvictable(replacer_, frame_id, set_evictable)
            /\ status' = status
            /\ ret' = Ret("SetEvictable", TRUE, frame_id, << >>)
       ELSE /\ replacer_' = replacer_
            /\ status' = "crashed"
            /\ ret' = Ret("SetEvictable", FALSE, frame_id, << >>)
    /\ UNCHANGED << pool_vars, clock >>

\* ret: whether a victim was found, and the victim's frame id.
CallEvict ==
    /\ status = "running"
    /\ LET ev == Evict(replacer_)
       IN  /\ replacer_' = ev.replacer
           /\ ret' = Ret("Evict", ev.ok, ev.frame_id, << >>)
    /\ UNCHANGED << pool_vars, clock, status >>

CallRemove(frame_id) ==
    /\ status = "running"
    /\ IF RemoveExits(replacer_, frame_id)
       THEN /\ replacer_' = replacer_
            /\ status' = "exited"
            /\ ret' = Ret("Remove", FALSE, frame_id, << >>)
       ELSE /\ replacer_' = Remove(replacer_, frame_id)
            /\ status' = status
            /\ ret' = Ret("Remove", TRUE, frame_id, << >>)
    /\ UNCHANGED << pool_vars, clock >>

ReplacerNext ==
    \/ \E frame_id \in DriverFrameIds : CallRecordAccess(frame_id)
    \/ \E frame_id \in DriverFrameIds, set_evictable \in BOOLEAN :
           CallSetEvictable(frame_id, set_evictable)
    \/ CallEvict
    \/ \E frame_id \in DriverFrameIds : CallRemove(frame_id)

SpecReplacer == ReplacerInit /\ [][ReplacerNext]_vars

\* --------------------------------------------------- threads and latches
\* Two threads call the pool concurrently.  A call takes latch_ (the
\* lock_guard), then the rw-latch of the page it works on (WLatch), does its
\* work, and releases both on return.  Thread 1 walks from page 0 to its child
\* page 1 with lock coupling, holding read latches on the pages it has pinned;
\* thread 2 calls FetchPage / UnpinPage, FlushPage or DeletePage on page 0.

\* The calls a thread makes in turn, as << operation, page id >>.
Scripts(t) ==
    IF t = 1
    THEN { << << "FetchPage", 0 >>, << "RLatch", 0 >>,
              << "FetchPage", 1 >>, << "RLatch", 1 >>,
              << "RUnlatch", 0 >>, << "UnpinPage", 0 >>,
              << "RUnlatch", 1 >>, << "UnpinPage", 1 >> >> }
    ELSE { << << "FetchPage", 0 >>, << "UnpinPage", 0 >> >>,
           << << "FlushPage", 0 >> >>,
           << << "DeletePage", 0 >> >> }

PoolCalls == {"FetchPage", "UnpinPage", "FlushPage", "DeletePage"}

\* The pool after NewPage, NewPage, UnpinPage(0, false), UnpinPage(1, false):
\* pages 0 and 1 resident in frames 0 and 1 and unpinned, no thread in a call.
LatchInit ==
    LET post0 == PostSuccessfullPageAllocation(ExtendibleHashTable,
                                               LRUKReplacer(PoolSize), 0, 0, 1)
        post1 == PostSuccessfullPageAllocation(post0.page_table, post0.replacer,
                                               1, 1, 2)
    IN  /\ pages_ = [f \in Frames |->
                        IF f <= 1 THEN [Page EXCEPT !.page_id_ = f] ELSE Page]
        /\ free_list_ = [i \in 1 .. PoolSize - 2 |-> i + 1]
        /\ page_table_ = post1.page_table
        /\ replacer_ = SetEvictable(SetEvictable(post1.replacer, 0, TRUE), 1, TRUE)
        /\ next_page_id_ = 2
        /\ disk = [p \in PageIds \cup {INVALID_PAGE_ID} |-> ZeroData]
        /\ clock = 2
        /\ status = "running"
        /\ ret = Ret("UnpinPage", TRUE, INVALID_PAGE_ID, << >>)
        /\ held = [p \in PageIds |-> 0]
        /\ Quiescent
        /\ NoIndex

\* The first call left in thread t's script.
Instr(t) == Head(pc[t].script)

\* Thread t has returned from its call (or latched / unlatched its page).
Return(t) == [pc EXCEPT ![t] = [script |-> Tail(pc[t].script), at |-> "call"]]

\* Thread t starts on a new sequence of calls.
Begin(t) ==
    /\ status = "running"
    /\ pc[t].script = << >>
    /\ \E script \in Scripts(t) :
          pc' = [pc EXCEPT ![t] = [script |-> script, at |-> "call"]]
    /\ UNCHANGED << index_vars, bpm_vars, clock, status, ret, held, latch_, rwlatch_, locked >>

\* std::lock_guard<std::mutex> lock(latch_) at the top of every call.
Lock(t) ==
    /\ status = "running"
    /\ pc[t].script # << >>
    /\ Instr(t)[1] \in PoolCalls
    /\ pc[t].at = "call"
    /\ latch_ = 0
    /\ latch_' = t
    /\ pc' = [pc EXCEPT ![t].at = "latch"]
    /\ UNCHANGED << index_vars, bpm_vars, clock, status, ret, held, rwlatch_, locked >>

\* The frame whose page the call latches with WLatch, -1 when it latches none:
\* the frame of a resident page; for FetchPage of a page that is not resident
\* the free frame or the victim it is read into.
LatchTarget(op, page_id) ==
    LET found == HTFind(page_table_, page_id)
    IN  IF found.found THEN found.value
        ELSE IF op # "FetchPage" THEN 0 - 1
        ELSE IF free_list_ # << >> THEN Head(free_list_)
        ELSE IF Evict(replacer_).ok THEN Evict(replacer_).frame_id
        ELSE 0 - 1

\* existing_page->WLatch(), taken while latch_ is held; it waits while the
\* page is latched by a reader or a writer.
WLatch(t) ==
    /\ status = "running"
    /\ pc[t].script # << >>
    /\ pc[t].at = "latch"
    /\ LET f == LatchTarget(Instr(t)[1], Instr(t)[2])
       IN  IF f = 0 - 1
           THEN rwlatch_' = rwlatch_
           ELSE /\ rwlatch_[f].writer = 0
                /\ rwlatch_[f].readers = {}
                /\ rwlatch_' = [rwlatch_ EXCEPT ![f].writer = t]
    /\ pc' = [pc EXCEPT ![t].at = "body"]
    /\ UNCHANGED << index_vars, bpm_vars, clock, status, ret, held, latch_, locked >>

\* The work of the call under both latches, then WUnlatch and the return,
\* which releases latch_.
Body(t) ==
    /\ pc[t].script # << >>
    /\ pc[t].at = "body"
    /\ LET op      == Instr(t)[1]
           page_id == Instr(t)[2]
       IN  CASE op = "FetchPage"  -> FetchPgImp(page_id)
             [] op = "UnpinPage"  -> UnpinPgImp(page_id, FALSE)
             [] op = "FlushPage"  -> FlushPgImp(page_id)
             [] op = "DeletePage" -> DeletePgImp(page_id)
    /\ rwlatch_' = [f \in Frames |->
                       IF rwlatch_[f].writer = t
                       THEN [rwlatch_[f] EXCEPT !.writer = 0]
                       ELSE rwlatch_[f]]
    /\ latch_' = 0
    /\ pc' = Return(t)
    /\ UNCHANGED << index_vars, locked >>

\* The caller read-latches the page it has pinned (Page::RLatch); it waits
\* while a writer holds the latch.
RLatch(t) ==
    /\ status = "running"
    /\ pc[t].script # << >>
    /\ Instr(t)[1] = "RLatch"
    /\ LET found == HTFind(page_table_, Instr(t)[2])
       IN  /\ found.found
           /\ rwlatch_[found.value].writer = 0
           /\ rwlatch_' = [rwlatch_ EXCEPT ![found.value].readers = @ \cup {t}]
    /\ pc' = Return(t)
    /\ UNCHANGED << index_vars, bpm_vars, clock, status, ret, held, latch_, locked >>

\* The caller releases its read latch (Page::RUnlatch).
RUnlatch(t) ==
    /\ status = "running"
    /\ pc[t].script # << >>
    /\ Instr(t)[1] = "RUnlatch"
    /\ LET found == HTFind(page_table_, Instr(t)[2])
       IN  /\ found.found
           /\ rwlatch_' = [rwlatch_ EXCEPT ![found.value].readers = @ \ {t}]
    /\ pc' = Return(t)
    /\ UNCHANGED << index_vars, bpm_vars, clock, status, ret, held, latch_, locked >>

LatchNext ==
    \E t \in Threads :
        \/ Begin(t)
        \/ Lock(t)
        \/ WLatch(t)
        \/ Body(t)
        \/ RLatch(t)
        \/ RUnlatch(t)

SpecLatch == LatchInit /\ [][LatchNext]_vars

\* Thread t is in a call and cannot take its next step: it waits for latch_
\* or for a page latch held by another thread.
Waiting(t) ==
    /\ pc[t].script # << >>
    /\ \/ /\ Instr(t)[1] \in PoolCalls
          /\ pc[t].at = "call"
          /\ latch_ \notin {0, t}
       \/ /\ pc[t].at = "latch"
          /\ LET f == LatchTarget(Instr(t)[1], Instr(t)[2])
             IN  /\ f # 0 - 1
                 /\ \/ rwlatch_[f].writer \notin {0, t}
                    \/ rwlatch_[f].readers \ {t} # {}
       \/ /\ Instr(t)[1] = "RLatch"
          /\ HTFind(page_table_, Instr(t)[2]).found
          /\ rwlatch_[HTFind(page_table_, Instr(t)[2]).value].writer \notin {0, t}

\* The tracked frames whose evictable flag is set.
Evictable(r) ==
    { f \in DOMAIN r.frame_index_map_ : r.frame_index_map_[f].is_evictable_ }

\* ------------------------------------------------------------ state helpers
\* Page id p is held by some frame of the pool.
Resident(p) == \E f \in Frames : pages_[f].page_id_ = p

\* The eviction candidates: the frames in the replacer's ordered set.
Candidates == replacer_.frame_history_set_

\* The frames on the free list.
FreeFrames == { free_list_[i] : i \in 1 .. Len(free_list_) }

\* ------------------------------------------------------------------ claims

C4_DirtyWrittenBeforeReuse ==
    [][ /\ \A p \in PageIds :
              (UnpinPgImp(p, TRUE) /\ ret'.ok)
              => \E f \in Frames : /\ pages_[f].page_id_ = p
                                   /\ pages_'[f].page_id_ = p
                                   /\ pages_'[f].is_dirty_
                                   /\ pages_'[f].data_ = pages_[f].data_
        /\ \A f \in Frames :
              (pages_[f].page_id_ # INVALID_PAGE_ID /\ pages_[f].is_dirty_)
              => \/ /\ pages_'[f].page_id_ = pages_[f].page_id_
                    /\ pages_'[f].is_dirty_
                 \/ /\ disk'[pages_[f].page_id_] = pages_[f].data_
                    /\ \E i \in 1 .. Len(ret'.io) :
                          /\ ret'.io[i] = << "W", pages_[f].page_id_ >>
                          /\ \A j \in 1 .. i - 1 : ret'.io[j][1] = "W"
        /\ \A p \in PageIds :
              disk'[p] # disk[p]
              => \E f \in Frames : pages_[f].page_id_ = p /\ disk'[p] = pages_[f].data_
        /\ \A p \in PageIds :
              (FetchPgImp(p) /\ ret'.ok /\ ~Resident(p))
              => /\ disk'[p] = disk[p]
                 /\ \E f \in Frames : /\ pages_'[f].page_id_ = p
                                      /\ pages_'[f].data_ = disk[p]
      ]_vars

\* C4 witness: NewPage has reused the frame of page 0, which was dirty with a
\* modified payload, and the payload is on disk under id 0.
C4_Witness ==
    /\ ret.op = "NewPage" /\ ret.ok
    /\ ret.io = << << "W", 0 >> >>
    /\ disk[0] = 1
    /\ ~Resident(0)

\* C5: between operations the replacer's eviction candidates are exactly the
\* frames that hold a resident page with pin_count = 0.
C5_CandidatesArePinZero ==
    \A f \in Frames :
        (f \in Candidates)
        <=> (pages_[f].page_id_ # INVALID_PAGE_ID /\ pages_[f].pin_count_ = 0)

C7_FreshPagePinnedClean ==
    [][ ( /\ ret'.op \in {"NewPage", "FetchPage"}
          /\ ret'.ok
          /\ ~Resident(ret'.result) )
        => \E f \in Frames :
              /\ pages_'[f].page_id_ = ret'.result
              /\ pages_'[f].pin_count_ = 1
              /\ ~pages_'[f].is_dirty_
              /\ HTFind(page_table_', ret'.result) = [found |-> TRUE, value |-> f]
              /\ f \notin Candidates'
              /\ f \in DOMAIN replacer_'.frame_index_map_
              /\ ~replacer_'.frame_index_map_[f].is_evictable_
              /\ ret'.op = "NewPage" => pages_'[f].data_ = ZeroData
      ]_vars

\* C7 witness: FetchPage has brought a non-resident page into the frame of a
\* dirty victim (page 0 written out, then the read).
C7_Witness ==
    /\ ret.op = "FetchPage" /\ ret.ok
    /\ ret.result # 0
    /\ ret.io = << << "W", 0 >>, << "R", ret.result >> >>

\* C8: NewPage hands out 0, 1, 2, ... in call order.  The counter starts at 0;
\* a successful NewPage returns the counter and advances it by one, the id is
\* above every id in the pool; no other step, a failed NewPage included,
\* changes the counter.
C8_PageIdsInCallOrder ==
    /\ next_page_id_ = 0
    /\ [][ /\ IF ret'.op = "NewPage" /\ ret'.ok
              THEN /\ ret'.result = next_page_id_
                   /\ next_page_id_' = next_page_id_ + 1
                   /\ \A f \in Frames : pages_[f].page_id_ < ret'.result
              ELSE next_page_id_' = next_page_id_
           /\ \A f \in Frames : pages_'[f].page_id_ < next_page_id_'
         ]_vars

\* C8 witness: after the pool was full, NewPage has handed out id PoolSize.
C8_Witness ==
    /\ ret.op = "NewPage" /\ ret.ok
    /\ ret.result = PoolSize
    /\ next_page_id_ = PoolSize + 1

\* C9: with the free list empty and every resident page pinned, NewPage and
\* FetchPage of a non-resident page return the empty result and leave page
\* table, pages, free list, replacer, next_page_id and disk unchanged.
C9_ExhaustionLeavesState ==
    [][ ( /\ free_list_ = << >>
          /\ \A f \in Frames :
                pages_[f].page_id_ # INVALID_PAGE_ID => pages_[f].pin_count_ > 0 )
        => /\ NewPgImp
              => (~ret'.ok /\ ret'.result = INVALID_PAGE_ID /\ UNCHANGED bpm_vars)
           /\ \A p \in PageIds :
                 (FetchPgImp(p) /\ ~Resident(p))
                 => (~ret'.ok /\ ret'.result = INVALID_PAGE_ID /\ UNCHANGED bpm_vars)
      ]_vars

\* C9 witness: FetchPage has returned the empty result with no free frame and
\* every frame pinned.
C9_Witness ==
    /\ ret.op = "FetchPage" /\ ~ret.ok
    /\ free_list_ = << >>
    /\ \A f \in Frames : pages_[f].pin_count_ > 0

\* C10: FetchPage of a resident page adds one to its pin_count and changes
\* nothing else in the page (frame, payload, dirty flag), records one access
\* for the frame, leaves it a non-candidate, and does no disk I/O.
C10_ResidentFetch ==
    [][ \A p \in PageIds :
           (FetchPgImp(p) /\ HTFind(page_table_, p).found)
           => LET f  == HTFind(page_table_, p).value
                  h  == replacer_.frame_index_map_[f].access_history_
                  h2 == replacer_'.frame_index_map_[f].access_history_
              IN  /\ ret'.ok /\ ret'.result = p /\ ret'.io = << >>
                  /\ pages_' = [pages_ EXCEPT ![f].pin_count_ = @ + 1]
                  /\ disk' = disk
                  /\ free_list_' = free_list_
                  /\ HTFind(page_table_', p) = [found |-> TRUE, value |-> f]
                  /\ f \notin Candidates'
                  /\ ~replacer_'.frame_index_map_[f].is_evictable_
                  /\ Len(h2) = (IF Len(h) < ReplacerK THEN Len(h) + 1 ELSE ReplacerK)
                  /\ h2[1] = clock'
                  /\ \A i \in 2 .. Len(h2) : h2[i] = h[i - 1]
      ]_vars

\* C10 witness: FetchPage has hit a resident dirty page with a modified payload
\* and raised its pin_count to 2.
C10_Witness ==
    /\ ret.op = "FetchPage" /\ ret.ok /\ ret.io = << >>
    /\ \E f \in Frames : /\ pages_[f].page_id_ = ret.result
                         /\ pages_[f].pin_count_ = 2
                         /\ pages_[f].is_dirty_
                         /\ pages_[f].data_ = 1

\* C11: a successful UnpinPage(p, d) takes exactly one pin off p, sets the
\* dirty flag to (old flag or d), and marks the frame evictable when the
\* pin count reaches 0 and leaves the replacer alone (the frame non-evictable)
\* while it is still above 0.
C11_UnpinEffect ==
    [][ \A p \in PageIds, d \in BOOLEAN :
           (UnpinPgImp(p, d) /\ ret'.ok)
           => LET f == HTFind(page_table_, p).value
              IN  /\ HTFind(page_table_, p).found
                  /\ pages_' = [pages_ EXCEPT ![f].pin_count_ = @ - 1,
                                              ![f].is_dirty_ = (@ \/ d)]
                  /\ ~replacer_.frame_index_map_[f].is_evictable_
                  /\ IF pages_'[f].pin_count_ = 0
                     THEN /\ DOMAIN replacer_'.frame_index_map_ =
                                 DOMAIN replacer_.frame_index_map_
                          /\ replacer_'.frame_index_map_[f] =
                                 [replacer_.frame_index_map_[f]
                                     EXCEPT !.is_evictable_ = TRUE]
                          /\ \A g \in DOMAIN replacer_.frame_index_map_ \ {f} :
                                replacer_'.frame_index_map_[g] =
                                    replacer_.frame_index_map_[g]
                     ELSE /\ replacer_' = replacer_
                          /\ f \notin Candidates'
      ]_vars

\* C11 witness: UnpinPage has brought dirty page 0 to pin count 0 and its
\* frame is flagged evictable, while the other frame is still pinned.
C11_Witness ==
    /\ ret.op = "UnpinPage" /\ ret.ok
    /\ \E f, g \in Frames :
          /\ pages_[f].page_id_ = 0
          /\ pages_[f].pin_count_ = 0
          /\ pages_[f].is_dirty_
          /\ replacer_.frame_index_map_[f].is_evictable_
          /\ pages_[g].page_id_ # INVALID_PAGE_ID
          /\ pages_[g].pin_count_ = 1
          /\ ~replacer_.frame_index_map_[g].is_evictable_

\* C12: UnpinPage(p, d) on a page that is not resident, or whose pin count
\* is 0, returns false and changes nothing, whatever d is.
C12_UnpinRefusedNoChange ==
    [][ \A p \in PageIds, d \in BOOLEAN :
           ( /\ UnpinPgImp(p, d)
             /\ \A f \in Frames : pages_[f].page_id_ = p => pages_[f].pin_count_ = 0 )
           => /\ ~ret'.ok
              /\ UNCHANGED << bpm_vars, held, clock >>
      ]_vars

\* C12 witness: UnpinPage has returned false while page 0 is resident, clean
\* and unpinned and no other page is in the pool or was ever allocated.
C12_Witness ==
    /\ ret.op = "UnpinPage" /\ ~ret.ok
    /\ next_page_id_ = 1
    /\ \E f \in Frames : /\ pages_[f].page_id_ = 0
                         /\ pages_[f].pin_count_ = 0
                         /\ ~pages_[f].is_dirty_

C14_FlushAllOnlyResident ==
    [][ ret'.op = "FlushAllPages"
        => /\ { ret'.io[i] : i \in 1 .. Len(ret'.io) } =
                 { << "W", pages_[f].page_id_ >> :
                      f \in { g \in Frames : pages_[g].page_id_ # INVALID_PAGE_ID } }
           /\ \A f \in Frames :
                 pages_[f].page_id_ # INVALID_PAGE_ID
                 => /\ ~pages_'[f].is_dirty_
                    /\ disk'[pages_[f].page_id_] = pages_[f].data_
           /\ disk'[INVALID_PAGE_ID] = disk[INVALID_PAGE_ID]
      ]_vars

C17_EvictOrder ==
    [][ CallEvict
        => LET E     == Evictable(replacer_)
               h(f)  == replacer_.frame_index_map_[f].access_history_
               young == { f \in E : Len(h(f)) < ReplacerK }
               v     == ret'.result
           IN  IF E = {} THEN ~ret'.ok
               ELSE /\ ret'.ok
                    /\ v \in E
                    /\ IF young # {}
                       THEN /\ v \in young
                            /\ \A f \in young : h(v)[Len(h(v))] <= h(f)[Len(h(f))]
                       ELSE \A f \in E : h(v)[ReplacerK] <= h(f)[ReplacerK]
      ]_vars

\* C18: only frames marked evictable are eviction candidates: every frame in
\* the candidate set has its evictable flag set, and Evict never returns a
\* frame whose flag is not set.
C18_OnlyEvictableAreCandidates ==
    [][ /\ replacer_'.frame_history_set_ \subseteq Evictable(replacer_')
        /\ (CallEvict /\ ret'.ok) => ret'.result \in Evictable(replacer_)
      ]_vars

\* C19: Size() is the number of tracked frames whose evictable flag is set;
\* hence SetEvictable changes it by one exactly on a change of the flag and
\* RecordAccess never changes it.
C19_SizeCountsEvictable ==
    /\ Size(replacer_) = Cardinality(Evictable(replacer_))
    /\ [][ /\ Size(replacer_') = Cardinality(Evictable(replacer_'))
           /\ \A f \in ReplacerFrames :
                 CallRecordAccess(f) => Size(replacer_') = Size(replacer_)
         ]_vars

\* C20: a successful Evict removes the victim entirely (Size drops by one,
\* the history is gone, so the next RecordAccess on the frame starts a
\* one-access, non-evictable history); with no evictable frame Evict reports
\* failure and changes nothing.
C20_EvictRemovesVictim ==
    [][ /\ CallEvict
           => IF Evictable(replacer_) = {}
              THEN ~ret'.ok /\ replacer_' = replacer_
              ELSE /\ ret'.ok
                   /\ Size(replacer_') = Size(replacer_) - 1
                   /\ ret'.result \in DOMAIN replacer_.frame_index_map_
                   /\ ret'.result \notin DOMAIN replacer_'.frame_index_map_
                   /\ ret'.result \notin replacer_'.frame_history_set_
        /\ \A f \in ReplacerFrames :
              (CallRecordAccess(f) /\ f \notin DOMAIN replacer_.frame_index_map_)
              => replacer_'.frame_index_map_[f] =
                     [is_evictable_ |-> FALSE, access_history_ |-> << clock' >>]
      ]_vars

\* C16: the latch protocol is deadlock-free under lock coupling: no state is
\* reachable in which every thread is inside a call and waits for a latch
\* that another waiting thread holds.
C16_NoDeadlock == ~(\A t \in Threads : Waiting(t))

\* C21: Remove(f) on a tracked evictable frame deletes the frame with its
\* access history and takes one off Size, leaving every other frame's record
\* alone; on an untracked frame it changes nothing; on a tracked frame that is
\* not evictable the process ends (exit) and nothing is removed.
C21_RemoveSemantics ==
    [][ \A f \in ReplacerFrames :
           CallRemove(f)
           => IF f \notin DOMAIN replacer_.frame_index_map_
              THEN /\ replacer_' = replacer_
                   /\ status' = "running"
              ELSE IF replacer_.frame_index_map_[f].is_evictable_
              THEN /\ status' = "running"
                   /\ f \notin DOMAIN replacer_'.frame_index_map_
                   /\ f \notin replacer_'.frame_history_set_
                   /\ Size(replacer_') = Size(replacer_) - 1
                   /\ \A g \in DOMAIN replacer_.frame_index_map_ \ {f} :
                         /\ g \in DOMAIN replacer_'.frame_index_map_
                         /\ replacer_'.frame_index_map_[g]
                                = replacer_.frame_index_map_[g]
              ELSE /\ status' = "exited"
                   /\ replacer_' = replacer_
      ]_vars

\* C22: RecordAccess, SetEvictable and Remove reject a frame id outside
\* 0 .. num_frames - 1 (the call ends the process and changes nothing), so no
\* out-of-range id is ever tracked and Evict never returns one.
C22_FrameIdRangeChecked ==
    [][ /\ \A f \in DriverFrameIds \ ReplacerFrames :
              \/ CallRecordAccess(f)
              \/ CallRemove(f)
              \/ \E set_evictable \in BOOLEAN : CallSetEvictable(f, set_evictable)
              => /\ status' # "running"
                 /\ replacer_' = replacer_
        /\ DOMAIN replacer_'.frame_index_map_ \subseteq ReplacerFrames
        /\ CallEvict /\ ret'.ok => ret'.result \in ReplacerFrames
      ]_vars

\* ------------------------------------------- the hash table on its own
\* The table's public operations, called directly with keys chosen so that
\* buckets fill, split, and the directory doubles more than once (0, 4 and 8
\* agree on their two low bits).  page_table_ is the table, reference the
\* plain map it is compared with.

HashKeys == {0, 1, 2, 4, 8}
HashValues == 0 .. 1
NoValue == 0 - 1

hash_idle_vars == << pages_, free_list_, replacer_, next_page_id_, disk, clock,
                     status, held, latch_, rwlatch_, locked, pc, tree, iterator >>

HashInit ==
    /\ pages_ = [f \in Frames |-> Page]
    /\ free_list_ = [i \in 1 .. PoolSize |-> i - 1]
    /\ page_table_ = ExtendibleHashTable
    /\ replacer_ = LRUKReplacer(PoolSize)
    /\ next_page_id_ = 0
    /\ disk = [p \in PageIds \cup {INVALID_PAGE_ID} |-> ZeroData]
    /\ clock = 0
    /\ status = "running"
    /\ ret = Ret("Init", FALSE, INVALID_PAGE_ID, << >>)
    /\ held = [p \in PageIds |-> 0]
    /\ Quiescent
    /\ tree = << >>
    /\ iterator = << >>
    /\ reference = [k \in HashKeys |-> NoValue]

\* ExtendibleHashTable::Insert(key, value).
CallInsert(key, value) ==
    /\ page_table_' = HTInsert(page_table_, key, value)
    /\ reference' = [reference EXCEPT ![key] = value]
    /\ ret' = Ret("Insert", TRUE, key, << >>)
    /\ UNCHANGED hash_idle_vars

\* ExtendibleHashTable::Remove(key): true when the key was stored.
CallHashRemove(key) ==
    /\ page_table_' = HTRemove(page_table_, key)
    /\ reference' = [reference EXCEPT ![key] = NoValue]
    /\ ret' = Ret("Remove", HTFind(page_table_, key).found, key, << >>)
    /\ UNCHANGED hash_idle_vars

\* ExtendibleHashTable::Find(key, value): the result is the value found.
CallFind(key) ==
    /\ ret' = Ret("Find", HTFind(page_table_, key).found,
                  HTFind(page_table_, key).value, << >>)
    /\ UNCHANGED << page_table_, reference, hash_idle_vars >>

HashNext ==
    \/ \E key \in HashKeys, value \in HashValues : CallInsert(key, value)
    \/ \E key \in HashKeys : CallHashRemove(key)
    \/ \E key \in HashKeys : CallFind(key)

SpecHash == HashInit /\ [][HashNext]_vars

\* The directory slots (0-based) that refer to bucket b.
SlotsOf(ht, b) == { i \in 0 .. (Len(ht.dir_) - 1) : ht.dir_[i + 1] = b }

\* C23: after every operation, Find(k) gives the value of the most recent
\* Insert(k, v) not followed by Remove(k), and absence otherwise, for every
\* key (the reference map records exactly that).
C23_FindAgreesWithMap ==
    \A k \in DOMAIN reference :
        LET found == HTFind(page_table_, k)
        IN  IF reference[k] = NoValue
            THEN ~found.found
            ELSE found.found /\ found.value = reference[k]

\* C24: after every operation each bucket of local depth d, under global
\* depth D, has d <= D, is referred to by exactly 2^(D-d) directory slots
\* which all agree modulo 2^d, and holds only keys whose hash has that
\* residue.
C24_DirectoryInvariant ==
    /\ Len(page_table_.dir_) = Pow2(page_table_.global_depth_)
    /\ \A b \in 1 .. Len(page_table_.buckets) :
          LET d     == page_table_.buckets[b].depth_
              slots == SlotsOf(page_table_, b)
          IN  /\ d <= page_table_.global_depth_
              /\ Cardinality(slots) = Pow2(page_table_.global_depth_ - d)
              /\ \A i, j \in slots : i % Pow2(d) = j % Pow2(d)
              /\ \A n \in 1 .. Len(page_table_.buckets[b].list_), i \in slots :
                    Hash(page_table_.buckets[b].list_[n][1]) % Pow2(d)
                        = i % Pow2(d)

\* C24 witness: the directory has doubled twice; one bucket is still at local
\* depth 1 (four slots refer to it), another has reached depth 3 and holds a
\* key.
C24_Witness ==
    /\ ret.op = "Insert"
    /\ page_table_.global_depth_ = 3
    /\ \E b \in 1 .. Len(page_table_.buckets) :
          /\ page_table_.buckets[b].depth_ = 1
          /\ Cardinality(SlotsOf(page_table_, b)) = 4
    /\ \E b \in 1 .. Len(page_table_.buckets) :
          /\ page_table_.buckets[b].depth_ = 3
          /\ page_table_.buckets[b].list_ # << >>

\* ------------------------------------------------------------ B+Tree index
\* The tree keeps its nodes in pages of the buffer pool.  A tree state is a
\* record t: root_page_id_, nodes (page id -> the node read from the page's
\* bytes), next_page_id_ (the pool's AllocatePage counter), pinned (the pages
\* whose pin count is above zero: they hold their frames), pins (page id ->
\* pins taken minus pins released by the call in progress) and status.
\* Page 0 is the header page, which the owner of the tree has created with
\* NewPage and keeps pinned; page INVALID_PAGE_ID exists because the code
\* fetches it: both read as zero bytes until something is written to them.

LeafMaxSize == 3
InternalMaxSize == 3
TreePoolSize == 5
MaxKey == 4
MaxValue == 1
MaxIdx == 4

\* A second tree, of small nodes in a larger pool, grows to three levels.
TallLeafMaxSize == 1
TallInternalMaxSize == 2
TallPoolSize == 12
TallMaxKey == 5
TallRemoveUntil == 4

HEADER_PAGE_ID == 0
TreeKeys == 1 .. MaxKey
TreeValues == 1 .. MaxValue
TallKeys == 1 .. TallMaxKey

TreePageIds == INVALID_PAGE_ID .. (TallPoolSize - 1)

\* Slots of array_ that the code reads or writes (one past the largest size).
ArrayCap == (IF LeafMaxSize > InternalMaxSize THEN LeafMaxSize ELSE InternalMaxSize) + 1

\* A page of zero bytes seen as a tree page: page type 0 is
\* INVALID_INDEX_PAGE, every other field and every array slot is 0.  view
\* records as which page class array_ was last written ("NONE": never).
ZeroNode ==
    [page_type_ |-> "INVALID_INDEX_PAGE", size_ |-> 0, max_size_ |-> 0,
     parent_page_id_ |-> 0, page_id_ |-> 0, next_page_id_ |-> 0,
     array_ |-> [i \in 1 .. ArrayCap |-> << 0, 0 >>], view |-> "NONE"]

IsLeafPage(n) == n.page_type_ = "LEAF_PAGE"

KeyAt(n, index) == n.array_[index + 1][1]

ValueAt(n, index) == n.array_[index + 1][2]

\* Elements start_idx .. size-1 move one slot up.
ShiftUnderlyingArray(n, start_idx) ==
    [n EXCEPT !.array_ = [i \in 1 .. ArrayCap |->
                             IF i - 1 > start_idx /\ i - 1 <= n.size_
                             THEN n.array_[i - 1]
                             ELSE n.array_[i]]]

PutKeyValuePairAt(n, idx, kv, as) ==
    [n EXCEPT !.array_[idx + 1] = kv, !.view = as]

InsertKVPairAt(n, idx, kv, as) ==
    LET put == PutKeyValuePairAt(ShiftUnderlyingArray(n, idx), idx, kv, as)
    IN  [put EXCEPT !.size_ = n.size_ + 1]

AddKVPair(n, kv, as) == InsertKVPairAt(n, n.size_, kv, as)

\* BPlusTreeLeafPage::RemoveAtIndex: no bounds check.
LeafRemoveAtIndex(n, index) ==
    [n EXCEPT !.array_ = [i \in 1 .. ArrayCap |->
                             IF i - 1 >= index /\ i < n.size_
                             THEN n.array_[i + 1]
                             ELSE n.array_[i]],
              !.size_ = n.size_ - 1]

\* BPlusTreeInternalPage::RemoveAtIndex: the node is returned unchanged when
\* the index is out of range.
InternalRemoveAtIndex(n, index) ==
    IF index < 0 \/ index >= n.size_ THEN n ELSE LeafRemoveAtIndex(n, index)

\* The binary search of FindIndexIn...PageJustGreaterThanKey between low and
\* high: -1 when a probed key equals key, else the lowest probed index whose
\* key is greater (result), or the size when there is none.
RECURSIVE BinarySearch(_, _, _, _, _)
BinarySearch(n, key, low, high, result) ==
    IF low > high
    THEN IF result = 0 - 1 THEN n.size_ ELSE result
    ELSE LET mid == (low + high) \div 2
         IN  IF key = KeyAt(n, mid) THEN 0 - 1
             ELSE IF key > KeyAt(n, mid)
             THEN BinarySearch(n, key, mid + 1, high, result)
             ELSE BinarySearch(n, key, low, mid - 1, mid)

FindIndexInLeafPageJustGreaterThanKey(n, key) ==
    BinarySearch(n, key, 0, n.size_ - 1, 0 - 1)

FindIndexInInternalPageJustGreaterThanKey(n, key) ==
    BinarySearch(n, key, 1, n.size_ - 1, 0 - 1)

\* The tree before its first insert: no root, the header page pinned by the
\* owner of the tree, every page reading as zero bytes.
BPlusTree ==
    [root_page_id_ |-> INVALID_PAGE_ID,
     nodes         |-> [p \in TreePageIds |-> ZeroNode],
     next_page_id_ |-> HEADER_PAGE_ID + 1,
     pinned        |-> {HEADER_PAGE_ID},
     pins          |-> [p \in TreePageIds |-> 0],
     leaf_max_size_     |-> LeafMaxSize,
     internal_max_size_ |-> InternalMaxSize,
     pool_size_         |-> TreePoolSize,
     status        |-> "running"]

\* The call stops: "crashed" when it dereferences the nullptr that NewPage or
\* FetchPage returned, runs off a page, or reads a page's array_ as the other
\* page class; "hung" when it walks a cycle of pages for ever.
Stop(t, how) == IF t.status = "running" THEN [t EXCEPT !.status = how] ELSE t

\* buffer_pool_manager_->FetchPage(p)->GetData(): the page is resident when
\* pinned; otherwise it needs a frame, and every frame that holds a pinned
\* page is taken.
FetchPage(t, p) ==
    IF t.status # "running" THEN t
    ELSE IF p \notin TreePageIds THEN Stop(t, "crashed")
    ELSE IF p \in t.pinned THEN [t EXCEPT !.pins[p] = @ + 1]
    ELSE IF Cardinality(t.pinned) < t.pool_size_
    THEN [t EXCEPT !.pinned = @ \cup {p}, !.pins[p] = @ + 1]
    ELSE Stop(t, "crashed")

\* buffer_pool_manager_->UnpinPage(p, is_dirty): used on the header page only,
\* which stays pinned by its owner.
UnpinPage(t, p) ==
    IF t.status # "running" THEN t ELSE [t EXCEPT !.pins[p] = @ - 1]

\* buffer_pool_manager_->NewPage(&id)->GetData(): the new page has id
\* t.next_page_id_ and zeroed memory.
NewPage(t) ==
    IF t.status # "running" THEN t
    ELSE IF Cardinality(t.pinned) < t.pool_size_
    THEN [t EXCEPT !.nodes[t.next_page_id_] = ZeroNode,
                   !.pinned = @ \cup {t.next_page_id_},
                   !.pins[t.next_page_id_] = @ + 1,
                   !.next_page_id_ = @ + 1]
    ELSE Stop(t, "crashed")

\* reinterpret_cast of page p to the page class as: reading its array_ is
\* meaningless when the array was written as the other class.
Cast(t, p, as) ==
    IF t.status = "running" /\ t.nodes[p].view \notin {"NONE", as}
    THEN Stop(t, "crashed")
    ELSE t

\* B_PLUS_TREE_LEAF_PAGE_TYPE::Init followed by SetPageType(LEAF_PAGE).
LeafInit(n, page_id, parent_id, max_size) ==
    [n EXCEPT !.page_id_ = page_id, !.parent_page_id_ = parent_id,
              !.max_size_ = max_size, !.size_ = 0,
              !.next_page_id_ = INVALID_PAGE_ID, !.page_type_ = "LEAF_PAGE"]

\* B_PLUS_TREE_INTERNAL_PAGE_TYPE::Init.
InternalInit(n, page_id, parent_id, max_size) ==
    [n EXCEPT !.page_id_ = page_id, !.parent_page_id_ = parent_id,
              !.max_size_ = max_size, !.size_ = 0,
              !.page_type_ = "INTERNAL_PAGE"]

\* The loop "for (i = 1; i < GetSize(); i++) if (KeyAt(i) > key) break;":
\* the value of i after it.
ChildIndex(n, key) ==
    LET greater == { i \in 1 .. (n.size_ - 1) : KeyAt(n, i) > key }
    IN  IF greater # {}
        THEN CHOOSE i \in greater : \A j \in greater : i <= j
        ELSE IF n.size_ > 1 THEN n.size_ ELSE 1

\* More pages than exist: a walk this long goes round a cycle.
Fuel == TreePoolSize + 2

\* The while loop of GetValue / Insert / Remove from page p (already
\* fetched) down to a leaf: the tree state and the leaf's page id.
RECURSIVE Descend(_, _, _, _)
Descend(t, p, key, fuel) ==
    IF t.status # "running" \/ IsLeafPage(t.nodes[p])
    THEN [t |-> t, page |-> p]
    ELSE IF fuel = 0 THEN [t |-> Stop(t, "hung"), page |-> p]
    ELSE LET c    == Cast(t, p, "INTERNAL")
             next == ValueAt(t.nodes[p], ChildIndex(t.nodes[p], key) - 1)
         IN  Descend(FetchPage(c, next), next, key, fuel - 1)

\* The tree at the start of a call: nothing pinned by it yet.
Enter(t) == [t EXCEPT !.pins = [p \in TreePageIds |-> 0]]

\* Index of key among the leaf's first size_ slots, -1 when absent.
LeafScan(n, key) ==
    LET hits == { i \in 0 .. (n.size_ - 1) : KeyAt(n, i) = key }
    IN  IF hits = {} THEN 0 - 1
        ELSE CHOOSE i \in hits : \A j \in hits : i <= j

\* BPlusTree::GetValue: found, and the values appended to *result.
GetValue(t0, key) ==
    LET t1   == FetchPage(Enter(t0), t0.root_page_id_)
        d    == Descend(t1, t0.root_page_id_, key, Fuel)
        t2   == Cast(d.t, d.page, "LEAF")
        leaf == t2.nodes[d.page]
        i    == LeafScan(leaf, key)
    IN  IF t2.status # "running" \/ i = 0 - 1
        THEN [t |-> t2, found |-> FALSE, result |-> << >>]
        ELSE [t |-> t2, found |-> TRUE, result |-> << ValueAt(leaf, i) >>]

SetParentPageId(t, p, parent_id) ==
    IF t.status # "running" THEN t
    ELSE [t EXCEPT !.nodes[p].parent_page_id_ = parent_id]

\* BPlusTree::UpdateRootPageId: fetches the header page, updates the record of
\* this index in it (there is none: UpdateRecord changes nothing) and unpins.
UpdateRootPageId(t) == UnpinPage(FetchPage(t, HEADER_PAGE_ID), HEADER_PAGE_ID)

\* The tree with node n stored in page p.
SetNode(t, p, n) ==
    IF t.status # "running" THEN t ELSE [t EXCEPT !.nodes[p] = n]

\* insertTo->InsertKVPairAt(idx, {key, value}) on the internal page to.
InternalInsertKVPairAt(t, to, idx, key, value) ==
    IF t.status # "running" THEN t
    ELSE SetNode(t, to, InsertKVPairAt(t.nodes[to], idx, << key, value >>, "INTERNAL"))

\* child_page->SetParentPageId(insertTo->GetPageId()).
SetParentToPageIdOf(t, child, to) ==
    IF t.status # "running" THEN t
    ELSE SetParentPageId(t, child, t.nodes[to].page_id_)

\* BPlusTree::InsertAndUpdateParentPage: the pair goes into page to at idx,
\* and the child page named by value gets to as its parent.
InsertAndUpdateParentPage(t, to, idx, key, value) ==
    SetParentToPageIdOf(
        FetchPage(InternalInsertKVPairAt(Cast(t, to, "INTERNAL"), to, idx, key, value),
                  value),
        value, to)

\* One pass of the loop of InsertIntoInternalPage that moves slot i of page ip
\* to the new page and re-parents the moved child.
MoveChild(t, ip, new_id, i, mid) ==
    SetParentPageId(
        FetchPage(SetNode(t, new_id,
                          PutKeyValuePairAt(t.nodes[new_id], i - mid,
                                            t.nodes[ip].array_[i + 1], "INTERNAL")),
                  ValueAt(t.nodes[ip], i)),
        ValueAt(t.nodes[ip], i), new_id)

RECURSIVE MoveChildren(_, _, _, _, _)
MoveChildren(t, ip, new_id, i, mid) ==
    IF t.status # "running" \/ i >= t.nodes[ip].size_ THEN t
    ELSE MoveChildren(MoveChild(t, ip, new_id, i, mid), ip, new_id, i + 1, mid)

\* mid = GetSize() / 2, one more when the new pair goes past it.
SplitPoint(size, index_to_insert) ==
    IF index_to_insert > size \div 2 THEN size \div 2 + 1 ELSE size \div 2

\* SetSize(mid) on the page that was split, SetSize(count_being_moved) on the
\* new one.
SetSizes(t, p, new_id, mid, count_being_moved) ==
    IF t.status # "running" THEN t
    ELSE [t EXCEPT !.nodes[p].size_ = mid,
                   !.nodes[new_id].size_ = count_being_moved]

\* The new root made when the page that was split had no parent:
\* Init(id, INVALID_PAGE_ID, internal_max_size_), root_page_id_ = id,
\* UpdateRootPageId().
NewRootPage(t, new_parent_page_id) ==
    IF t.status # "running" THEN t
    ELSE UpdateRootPageId(
             [t EXCEPT !.nodes[new_parent_page_id] =
                          InternalInit(t.nodes[new_parent_page_id], new_parent_page_id,
                                       INVALID_PAGE_ID, t.internal_max_size_),
                       !.root_page_id_ = new_parent_page_id])

RECURSIVE InsertIntoInternalPage(_, _, _, _)

\* InsertIntoInternalPage(parent, child->KeyAt(0), child->GetPageId()).
InsertFirstKeyOf(t, parent, child) ==
    IF t.status # "running" THEN t
    ELSE InsertIntoInternalPage(t, parent, KeyAt(t.nodes[child], 0),
                                t.nodes[child].page_id_)

\* The end of the split of an internal page: the new page's first key goes
\* into the parent, then the new page's parent id is set.
InsertNewInternalPage(t, parent, new_id) ==
    SetParentPageId(InsertFirstKeyOf(t, parent, new_id), new_id, parent)

\* The parent of the internal page ip that was split: a new root when it had
\* none (ip is put into it first), else the page fetched.
ParentOfSplitInternalPage(t, ip, new_id) ==
    IF t.status # "running" THEN t
    ELSE IF t.nodes[ip].parent_page_id_ = INVALID_PAGE_ID
    THEN InsertNewInternalPage(
             SetParentPageId(
                 InsertFirstKeyOf(NewRootPage(NewPage(t), t.next_page_id_),
                                  t.next_page_id_, ip),
                 ip, t.next_page_id_),
             t.next_page_id_, new_id)
    ELSE InsertNewInternalPage(FetchPage(t, t.nodes[ip].parent_page_id_),
                               t.nodes[ip].parent_page_id_, new_id)

\* The split of the full internal page ip once the new page new_id exists
\* and the slot of the key is known.
SplitInternalPage(t, ip, new_id, key, value, index_to_insert, mid) ==
    ParentOfSplitInternalPage(
        IF index_to_insert < t.internal_max_size_ /\ index_to_insert <= mid
        THEN InsertAndUpdateParentPage(
                 SetSizes(MoveChildren(t, ip, new_id, mid, mid), ip, new_id, mid,
                          t.nodes[ip].size_ - mid),
                 ip, index_to_insert, key, value)
        ELSE InsertAndUpdateParentPage(
                 SetSizes(MoveChildren(t, ip, new_id, mid, mid), ip, new_id, mid,
                          t.nodes[ip].size_ - mid),
                 new_id, index_to_insert - mid, key, value),
        ip, new_id)

\* The full internal page ip after NewPage: the new page is initialised (with
\* leaf_max_size_), and nothing more happens when the key is already in ip.
InsertIntoFullInternalPage(t, ip, new_id, key, value) ==
    IF t.status # "running" THEN t
    ELSE IF FindIndexInInternalPageJustGreaterThanKey(t.nodes[ip], key) = 0 - 1
    THEN SetNode(t, new_id,
                 InternalInit(t.nodes[new_id], new_id, INVALID_PAGE_ID, t.leaf_max_size_))
    ELSE SplitInternalPage(
             Cast(SetNode(t, new_id,
                          InternalInit(t.nodes[new_id], new_id, INVALID_PAGE_ID,
                                       t.leaf_max_size_)),
                  ip, "INTERNAL"),
             ip, new_id, key, value,
             FindIndexInInternalPageJustGreaterThanKey(t.nodes[ip], key),
             SplitPoint(t.nodes[ip].size_,
                        FindIndexInInternalPageJustGreaterThanKey(t.nodes[ip], key)))

\* The internal page ip with room: the pair goes in at its slot, unless the
\* key is already there.
InsertIntoRoomyInternalPage(t, ip, key, value) ==
    IF t.status # "running" THEN t
    ELSE IF FindIndexInInternalPageJustGreaterThanKey(t.nodes[ip], key) = 0 - 1
    THEN t
    ELSE InsertAndUpdateParentPage(
             t, ip, FindIndexInInternalPageJustGreaterThanKey(t.nodes[ip], key),
             key, value)

\* BPlusTree::InsertIntoInternalPage(internalPage = page ip, key, value).
InsertIntoInternalPage(t, ip, key, value) ==
    IF t.status # "running" THEN t
    ELSE IF t.nodes[ip].size_ = t.internal_max_size_
    THEN InsertIntoFullInternalPage(NewPage(t), ip, t.next_page_id_, key, value)
    ELSE InsertIntoRoomyInternalPage(Cast(t, ip, "INTERNAL"), ip, key, value)

\* The loop of SplitLeafPageAndAddKey that copies slots i .. size-1 of the
\* leaf to the new leaf.
RECURSIVE MovePairs(_, _, _, _, _)
MovePairs(t, lp, new_id, i, mid) ==
    IF i >= t.nodes[lp].size_ THEN t
    ELSE MovePairs(SetNode(t, new_id,
                           PutKeyValuePairAt(t.nodes[new_id], i - mid,
                                             t.nodes[lp].array_[i + 1], "LEAF")),
                   lp, new_id, i + 1, mid)

\* leafPage->SetSize(mid); leafPage->SetNextPageId(new_leaf_page_id);
\* new_leaf_page->SetSize(count_being_moved).
LinkNewLeaf(t, lp, new_id, mid, count_being_moved) ==
    [t EXCEPT !.nodes[lp].size_ = mid,
              !.nodes[lp].next_page_id_ = new_id,
              !.nodes[new_id].size_ = count_being_moved]

LeafInsertKVPairAt(t, p, idx, key, value) ==
    SetNode(t, p, InsertKVPairAt(t.nodes[p], idx, << key, value >>, "LEAF"))

\* The end of SplitLeafPageAndAddKey: the new leaf's first key goes into the
\* parent.
InsertNewLeafPage(t, parent, new_id) ==
    IF t.status # "running" THEN t
    ELSE InsertIntoInternalPage(t, parent, KeyAt(t.nodes[new_id], 0), new_id)

\* The parent of the leaf lp that was split: a new root when it had none (lp
\* is put into it first), else the page fetched.
ParentOfSplitLeafPage(t, lp, new_id) ==
    IF t.nodes[lp].parent_page_id_ = INVALID_PAGE_ID
    THEN InsertNewLeafPage(
             InsertFirstKeyOf(NewRootPage(NewPage(t), t.next_page_id_),
                              t.next_page_id_, lp),
             t.next_page_id_, new_id)
    ELSE InsertNewLeafPage(FetchPage(t, t.nodes[lp].parent_page_id_),
                           t.nodes[lp].parent_page_id_, new_id)

\* The split of the full leaf lp once the new leaf new_id exists.
SplitLeafPage(t, lp, new_id, key, value, index_to_insert, mid) ==
    IF t.status # "running" THEN t
    ELSE ParentOfSplitLeafPage(
             IF index_to_insert < t.leaf_max_size_ /\ index_to_insert <= mid
             THEN LeafInsertKVPairAt(
                      LinkNewLeaf(MovePairs(t, lp, new_id, mid, mid), lp, new_id,
                                  mid, t.nodes[lp].size_ - mid),
                      lp, index_to_insert, key, value)
             ELSE LeafInsertKVPairAt(
                      LinkNewLeaf(MovePairs(t, lp, new_id, mid, mid), lp, new_id,
                                  mid, t.nodes[lp].size_ - mid),
                      new_id, index_to_insert - mid, key, value),
             lp, new_id)

\* B_PLUS_TREE_LEAF_PAGE_TYPE::Init and SetPageType(LEAF_PAGE) on the page
\* that NewPage returned.
NewLeafPage(t, new_id) ==
    SetNode(t, new_id,
            LeafInit(t.nodes[new_id], new_id, INVALID_PAGE_ID, t.leaf_max_size_))

\* BPlusTree::SplitLeafPageAndAddKey(leafPage = page lp, key, value): the
\* tree state and the page_id_t it returns.
SplitLeafPageAndAddKey(t, lp, key, value) ==
    IF FindIndexInLeafPageJustGreaterThanKey(t.nodes[lp], key) = 0 - 1
    THEN [t |-> t, result |-> 0 - 1]
    ELSE [t |-> SplitLeafPage(
                    NewLeafPage(NewPage(t), t.next_page_id_),
                    lp, t.next_page_id_, key, value,
                    FindIndexInLeafPageJustGreaterThanKey(t.nodes[lp], key),
                    SplitPoint(t.nodes[lp].size_,
                               FindIndexInLeafPageJustGreaterThanKey(t.nodes[lp], key))),
          result |-> t.next_page_id_]

\* The root of an empty tree: NewPage(&root_page_id_) and Init as a leaf.
StartNewTree(t) ==
    IF t.root_page_id_ # INVALID_PAGE_ID THEN t
    ELSE IF NewPage(t).status # "running" THEN NewPage(t)
    ELSE [NewLeafPage(NewPage(t), t.next_page_id_)
             EXCEPT !.root_page_id_ = t.next_page_id_]

\* Insert once the leaf of the key, page lp, is reached: the tree state and
\* the bool returned (the page_id_t that SplitLeafPageAndAddKey returns
\* converts to true unless it is 0).
InsertIntoLeaf(t, lp, key, value) ==
    IF t.status # "running" THEN [t |-> t, result |-> FALSE]
    ELSE IF t.nodes[lp].size_ = t.leaf_max_size_
    THEN [t |-> SplitLeafPageAndAddKey(t, lp, key, value).t,
          result |-> SplitLeafPageAndAddKey(t, lp, key, value).result # 0]
    ELSE IF FindIndexInLeafPageJustGreaterThanKey(t.nodes[lp], key) = 0 - 1
    THEN [t |-> t, result |-> FALSE]
    ELSE [t |-> LeafInsertKVPairAt(
                    t, lp, FindIndexInLeafPageJustGreaterThanKey(t.nodes[lp], key),
                    key, value),
          result |-> TRUE]

\* The leaf reached by Descend, cast to LeafPage.
LeafOf(d) == [t |-> Cast(d.t, d.page, "LEAF"), page |-> d.page]

\* The descent of GetValue / Insert / Remove from the root.
FindLeaf(t, key) ==
    LeafOf(Descend(FetchPage(t, t.root_page_id_), t.root_page_id_, key, Fuel))

InsertIntoLeafOf(d, key, value) == InsertIntoLeaf(d.t, d.page, key, value)

\* BPlusTree::Insert.
BPlusTreeInsert(t0, key, value) ==
    InsertIntoLeafOf(FindLeaf(StartNewTree(Enter(t0)), key), key, value)

\* Lowest element of a non-empty set of indices.
Lowest(S) == CHOOSE i \in S : \A j \in S : i <= j

\* BPlusTreeInternalPage::FindNextPageId: the value one slot after the first
\* slot that holds curr_page_id, also when that slot is the last one in use.
FindNextPageId(n, curr_page_id) ==
    LET hits == { idx \in 0 .. (n.size_ - 1) : ValueAt(n, idx) = curr_page_id }
    IN  IF hits = {} THEN INVALID_PAGE_ID ELSE ValueAt(n, Lowest(hits) + 1)

\* BPlusTreeInternalPage::FindPreviousPageId: a hit in slot 0 does not end
\* the scan.
FindPreviousPageId(n, curr_page_id) ==
    LET hits == { idx \in 1 .. (n.size_ - 1) : ValueAt(n, idx) = curr_page_id }
    IN  IF hits = {} THEN INVALID_PAGE_ID ELSE ValueAt(n, Lowest(hits) - 1)

\* BPlusTreeInternalPage::RemovePageId: removed, and the page afterwards.
RemovePageId(n, curr_page_id) ==
    LET hits == { i \in 0 .. (n.size_ - 1) : ValueAt(n, i) = curr_page_id }
    IN  IF hits = {} THEN [removed |-> FALSE, node |-> n]
        ELSE [removed |-> TRUE, node |-> InternalRemoveAtIndex(n, Lowest(hits))]

\* The loop of MergeLeafNode / MergeInternalNode: slot i onwards of page from
\* is appended to page to.
RECURSIVE MergeFrom(_, _, _, _, _)
MergeFrom(t, from, to, i, as) ==
    IF i >= t.nodes[from].size_ THEN t
    ELSE MergeFrom([t EXCEPT !.nodes[to] =
                       AddKVPair(t.nodes[to], t.nodes[from].array_[i + 1], as)],
                   from, to, i + 1, as)

\* Both take the pages as the class as.  Merging a non-empty page into itself
\* never ends: each pass of the loop makes the page one longer, until it
\* writes past the page.
MergeNode(t, from, to, as) ==
    LET c == Cast(Cast(t, from, as), to, as)
    IN  IF c.status # "running" THEN c
        ELSE IF from = to
        THEN IF c.nodes[from].size_ = 0 THEN c ELSE Stop(c, "crashed")
        ELSE MergeFrom(c, from, to, 0, as)

MergeLeafNode(t, fromLeafPage, toLeafPage) ==
    MergeNode(t, fromLeafPage, toLeafPage, "LEAF")

MergeInternalNode(t, fromPage, toPage) ==
    MergeNode(t, fromPage, toPage, "INTERNAL")

RECURSIVE RemoveFromParentPage(_, _, _)
RECURSIVE CoalesceInternalNode(_, _, _)

\* BPlusTree::RemoveFromParentPage(page bp).
RemoveFromParentPage(t, bp, fuel) ==
    IF t.status # "running" THEN t
    ELSE IF fuel = 0 THEN Stop(t, "hung")
    ELSE LET parent_page_id == t.nodes[bp].parent_page_id_
             t1 == Cast(FetchPage(t, parent_page_id), parent_page_id, "INTERNAL")
             r  == RemovePageId(t1.nodes[parent_page_id], t1.nodes[bp].page_id_)
         IN  IF t1.status # "running" \/ ~r.removed THEN t1
             ELSE CoalesceInternalNode(
                      [t1 EXCEPT !.nodes[parent_page_id] = r.node],
                      parent_page_id, fuel - 1)

\* BPlusTree::CoalesceInternalNode(internalPage = page ip).
CoalesceInternalNode(t, ip, fuel) ==
    IF t.status # "running" THEN t
    ELSE IF t.nodes[ip].size_ >= t.nodes[ip].max_size_ \div 2 THEN t
    ELSE LET parent_page_id == t.nodes[ip].parent_page_id_
             t1 == Cast(FetchPage(t, parent_page_id), parent_page_id, "INTERNAL")
             right_page_id ==
                 FindNextPageId(t1.nodes[parent_page_id], t1.nodes[ip].page_id_)
             t2 == FetchPage(t1, right_page_id)
             left_page_id ==
                 FindPreviousPageId(t2.nodes[parent_page_id], t2.nodes[ip].page_id_)
             t3 == FetchPage(t2, left_page_id)
         IN  IF t2.status # "running" THEN t2
             ELSE IF t2.nodes[right_page_id].size_ + t2.nodes[ip].size_
                         < t2.internal_max_size_
             THEN RemoveFromParentPage(MergeInternalNode(t2, right_page_id, ip),
                                       right_page_id, fuel)
             ELSE IF t3.status # "running" THEN t3
             ELSE IF t3.nodes[left_page_id].size_ + t3.nodes[ip].size_
                         < t3.internal_max_size_
             THEN RemoveFromParentPage(MergeInternalNode(t3, ip, left_page_id),
                                       ip, fuel)
             ELSE t3

\* BPlusTree::CoalesceLeafNode(leafPage = page lp).
CoalesceLeafNode(t, lp) ==
    IF t.status # "running" THEN t
    ELSE IF t.nodes[lp].size_ > t.nodes[lp].max_size_ \div 2 THEN t
    ELSE LET parent_page_id == t.nodes[lp].parent_page_id_
             t1 == Cast(FetchPage(t, parent_page_id), parent_page_id, "INTERNAL")
             right_leaf_page_id ==
                 FindNextPageId(t1.nodes[parent_page_id], t1.nodes[lp].page_id_)
             t2 == FetchPage(t1, right_leaf_page_id)
             left_leaf_page_id ==
                 FindPreviousPageId(t2.nodes[parent_page_id], t2.nodes[lp].page_id_)
             t3 == FetchPage(t2, left_leaf_page_id)
         IN  IF t2.status # "running" THEN t2
             ELSE IF t2.nodes[right_leaf_page_id].size_ + t2.nodes[lp].size_
                         < t2.leaf_max_size_
             THEN RemoveFromParentPage(MergeLeafNode(t2, right_leaf_page_id, lp),
                                       right_leaf_page_id, Fuel)
             ELSE IF t3.status # "running" THEN t3
             ELSE IF t3.nodes[left_leaf_page_id].size_ + t3.nodes[lp].size_
                         < t3.leaf_max_size_
             THEN RemoveFromParentPage(MergeLeafNode(t3, lp, left_leaf_page_id),
                                       lp, Fuel)
             ELSE t3

\* BPlusTree::Remove.
BPlusTreeRemove(t0, key) ==
    LET t1   == FetchPage(Enter(t0), t0.root_page_id_)
        d    == Descend(t1, t0.root_page_id_, key, Fuel)
        t2   == Cast(d.t, d.page, "LEAF")
        leaf == t2.nodes[d.page]
        i    == LeafScan(leaf, key)
        t3   == [t2 EXCEPT !.nodes[d.page] = LeafRemoveAtIndex(leaf, i)]
    IN  IF t2.status # "running" \/ i = 0 - 1 THEN t2
        ELSE IF t3.nodes[d.page].size_ <= t3.nodes[d.page].max_size_ \div 2
        THEN CoalesceLeafNode(t3, d.page)
        ELSE t3

\* ----------------------------------------------------------- IndexIterator
\* An iterator is a record of curr_page_id_ and curr_page_id_idx_.  Each
\* operator returns the tree state too: it fetches pages from the pool.

\* IndexIterator::IsEnd.
IsEnd(t, it) ==
    LET t1 == FetchPage(t, it.curr_page_id_)
        t2 == Cast(t1, it.curr_page_id_, "LEAF")
        n  == t2.nodes[it.curr_page_id_]
    IN  IF it.curr_page_id_ = INVALID_PAGE_ID THEN [t |-> t, end |-> TRUE]
        ELSE IF t1.status # "running" THEN [t |-> t1, end |-> TRUE]
        ELSE IF ~IsLeafPage(t1.nodes[it.curr_page_id_]) THEN [t |-> t1, end |-> TRUE]
        ELSE IF t2.status # "running" THEN [t |-> t2, end |-> TRUE]
        ELSE [t |-> t2,
              end |-> /\ it.curr_page_id_idx_ = n.size_ - 1
                      /\ n.next_page_id_ = INVALID_PAGE_ID]

\* IndexIterator::operator++.
Increment(t0, it) ==
    LET e  == IsEnd(Enter(t0), it)
        t1 == FetchPage(e.t, it.curr_page_id_)
        n  == t1.nodes[it.curr_page_id_]
    IN  IF e.end THEN [t |-> e.t, it |-> it]
        ELSE IF t1.status # "running" THEN [t |-> t1, it |-> it]
        ELSE IF it.curr_page_id_idx_ = n.size_ - 1
        THEN [t |-> t1,
              it |-> [curr_page_id_ |-> n.next_page_id_, curr_page_id_idx_ |-> 0]]
        ELSE [t |-> t1,
              it |-> [it EXCEPT !.curr_page_id_idx_ = @ + 1]]

\* ------------------------------------------------ the tree on its own
\* Insert, Remove and GetValue called on one tree.  reference maps each key
\* to the value of its successful insert, NoValue once removed.

tree_idle_vars == << pages_, free_list_, page_table_, replacer_, next_page_id_,
                     disk, clock, held, latch_, rwlatch_, locked, pc >>

NoIterator == [curr_page_id_ |-> INVALID_PAGE_ID, curr_page_id_idx_ |-> 0]

TreeInit ==
    /\ pages_ = [f \in Frames |-> Page]
    /\ free_list_ = [i \in 1 .. PoolSize |-> i - 1]
    /\ page_table_ = ExtendibleHashTable
    /\ replacer_ = LRUKReplacer(PoolSize)
    /\ next_page_id_ = 0
    /\ disk = [p \in PageIds \cup {INVALID_PAGE_ID} |-> ZeroData]
    /\ clock = 0
    /\ status = "running"
    /\ ret = Ret("Init", FALSE, INVALID_PAGE_ID, << >>)
    /\ held = [p \in PageIds |-> 0]
    /\ Quiescent
    /\ tree = BPlusTree
    /\ iterator = NoIterator
    /\ reference = [k \in TreeKeys |-> NoValue]

\* BPlusTree::Insert(key, value).
CallTreeInsert(key, value) ==
    /\ status = "running"
    /\ LET r == BPlusTreeInsert(tree, key, value)
       IN  /\ tree' = r.t
           /\ status' = r.t.status
           /\ ret' = Ret("Insert", r.result, key, << >>)
    /\ reference' = IF reference[key] = NoValue
                    THEN [reference EXCEPT ![key] = value]
                    ELSE reference
    /\ UNCHANGED << iterator, tree_idle_vars >>

\* BPlusTree::Remove(key).
CallTreeRemove(key) ==
    /\ status = "running"
    /\ LET t == BPlusTreeRemove(tree, key)
       IN  /\ tree' = t
           /\ status' = t.status
    /\ ret' = Ret("Remove", TRUE, key, << >>)
    /\ reference' = [reference EXCEPT ![key] = NoValue]
    /\ UNCHANGED << iterator, tree_idle_vars >>

\* BPlusTree::GetValue(key, &result): io holds what was appended to result.
CallGetValue(key) ==
    /\ status = "running"
    /\ LET r == GetValue(tree, key)
       IN  /\ tree' = r.t
           /\ status' = r.t.status
           /\ ret' = Ret("GetValue", r.found, key, r.result)
    /\ UNCHANGED << iterator, reference, tree_idle_vars >>

\* BPlusTree::Begin(): a default-constructed iterator, whose two members no
\* code has set: they hold whatever the memory held.
CallBegin ==
    /\ status = "running"
    /\ \E page_id \in INVALID_PAGE_ID .. (TreePoolSize - 1), idx \in 0 .. (LeafMaxSize - 1) :
           iterator' = [curr_page_id_ |-> page_id, curr_page_id_idx_ |-> idx]
    /\ tree' = Enter(tree)
    /\ ret' = Ret("Begin", TRUE, INVALID_PAGE_ID, << >>)
    /\ UNCHANGED << status, reference, tree_idle_vars >>

\* IndexIterator::operator++ on the iterator (the slot index is an int: the
\* calls stop at MaxIdx).
CallIncrement ==
    /\ status = "running"
    /\ iterator.curr_page_id_idx_ < MaxIdx
    /\ LET r == Increment(tree, iterator)
       IN  /\ tree' = r.t
           /\ status' = r.t.status
           /\ iterator' = r.it
    /\ ret' = Ret("Increment", TRUE, INVALID_PAGE_ID, << >>)
    /\ UNCHANGED << reference, tree_idle_vars >>

TreeNext ==
    \/ \E key \in TreeKeys, value \in TreeValues : CallTreeInsert(key, value)
    \/ \E key \in TreeKeys : CallTreeRemove(key)
    \/ \E key \in TreeKeys : CallGetValue(key)

SpecTree == TreeInit /\ [][TreeNext]_vars

\* ------------------------------------------------------- the ordered scan
\* A tree filled by inserting distinct keys in some order, then scanned with
\* an iterator obtained from Begin() and advanced with ++.

\* The sequences of distinct keys, of every length.
InsertOrders ==
    { order \in UNION { [1 .. n -> TreeKeys] : n \in 0 .. MaxKey } :
          \A i, j \in 1 .. Len(order) : i # j => order[i] # order[j] }

\* The tree after Insert(order[1], .), Insert(order[2], .), ...
RECURSIVE InsertInOrder(_, _)
InsertInOrder(t, order) ==
    IF order = << >> THEN t
    ELSE InsertInOrder(BPlusTreeInsert(t, Head(order), MaxValue).t, Tail(order))

ScanInit ==
    /\ pages_ = [f \in Frames |-> Page]
    /\ free_list_ = [i \in 1 .. PoolSize |-> i - 1]
    /\ page_table_ = ExtendibleHashTable
    /\ replacer_ = LRUKReplacer(PoolSize)
    /\ next_page_id_ = 0
    /\ disk = [p \in PageIds \cup {INVALID_PAGE_ID} |-> ZeroData]
    /\ clock = 0
    /\ status = "running"
    /\ ret = Ret("Init", FALSE, INVALID_PAGE_ID, << >>)
    /\ held = [p \in PageIds |-> 0]
    /\ Quiescent
    /\ iterator = NoIterator
    /\ \E order \in InsertOrders :
           /\ tree = Enter(InsertInOrder(BPlusTree, order))
           /\ reference = [k \in TreeKeys |->
                              IF \E i \in 1 .. Len(order) : order[i] = k
                              THEN MaxValue ELSE NoValue]

ScanNext ==
    \/ CallBegin
    \/ CallIncrement

SpecScan == ScanInit /\ [][ScanNext]_vars

\* ------------------------------------------------- properties of the tree

\* The keys that were inserted and not removed since.
LiveKeys == { k \in DOMAIN reference : reference[k] # NoValue }

\* The elements of a set of integers in ascending order.
RECURSIVE Ascending(_)
Ascending(S) ==
    IF S = {} THEN << >>
    ELSE LET least == CHOOSE x \in S : \A y \in S : x <= y
         IN  << least >> \o Ascending(S \ {least})

\* The pages of the subtree under page p: p, and for an internal page the
\* subtrees of the children in its slots 0 .. size-1.
RECURSIVE Subtree(_, _, _)
Subtree(t, p, fuel) ==
    IF p \notin TreePageIds \ {INVALID_PAGE_ID} THEN {}
    ELSE IF IsLeafPage(t.nodes[p]) \/ fuel = 0 THEN {p}
    ELSE {p} \cup UNION { Subtree(t, ValueAt(t.nodes[p], i), fuel - 1) :
                            i \in 0 .. (t.nodes[p].size_ - 1) }

\* The leftmost leaf: slot 0 is followed from the root down.
RECURSIVE LeftmostLeaf(_, _, _)
LeftmostLeaf(t, p, fuel) ==
    IF p \notin TreePageIds \ {INVALID_PAGE_ID} \/ fuel = 0 THEN INVALID_PAGE_ID
    ELSE IF IsLeafPage(t.nodes[p]) THEN p
    ELSE LeftmostLeaf(t, ValueAt(t.nodes[p], 0), fuel - 1)

\* The keys met from leaf p along next_page_id_, in the order met.
RECURSIVE ChainKeys(_, _, _)
ChainKeys(t, p, fuel) ==
    IF p \notin TreePageIds \ {INVALID_PAGE_ID} \/ fuel = 0 THEN << >>
    ELSE [i \in 1 .. t.nodes[p].size_ |-> KeyAt(t.nodes[p], i - 1)]
         \o ChainKeys(t, t.nodes[p].next_page_id_, fuel - 1)

\* C25: whenever GetValue(k) returns, it returns true and appends the
\* inserted value exactly when k was inserted and not removed since;
\* otherwise it returns false and appends nothing.
C25_GetValueAgreesWithMap ==
    [][ \A k \in TreeKeys :
           CallGetValue(k) /\ status' = "running"
           => /\ ret'.ok = (k \in LiveKeys)
              /\ ret'.io = IF k \in LiveKeys THEN << reference[k] >> ELSE << >>
      ]_vars

\* C26: after every Insert and Remove that returned, the keys met by
\* following next_page_id_ from the leftmost leaf are exactly the live keys,
\* each once, in strictly ascending order.
C26_LeafChainIsSortedLiveKeys ==
    (status = "running" /\ tree # << >> /\ tree.root_page_id_ # INVALID_PAGE_ID)
    => ChainKeys(tree, LeftmostLeaf(tree, tree.root_page_id_, Fuel), Fuel)
           = Ascending(LiveKeys)

\* C27: after every Insert and Remove that returned, every node of the tree
\* other than the root holds at least ceil(max_size / 2) entries.
C27_HalfFull ==
    (status = "running" /\ tree # << >>)
    => \A p \in Subtree(tree, tree.root_page_id_, Fuel) \ {tree.root_page_id_} :
           2 * tree.nodes[p].size_ >= tree.nodes[p].max_size_

\* C28: Insert(k, v) that returns, of a key that is in the tree, returns false
\* and leaves every node, the root and the page counter as they were; of a key
\* that is not in the tree it returns true.
C28_DuplicateInsertRefused ==
    [][ \A k \in TreeKeys, v \in TreeValues :
           CallTreeInsert(k, v) /\ status' = "running"
           => IF k \in LiveKeys
              THEN /\ ~ret'.ok
                   /\ tree'.nodes = tree.nodes
                   /\ tree'.root_page_id_ = tree.root_page_id_
                   /\ tree'.next_page_id_ = tree.next_page_id_
              ELSE ret'.ok
      ]_vars

\* C29: when GetValue, Insert or Remove has returned, it has unpinned every
\* page it pinned (each page's pin count is what it was before the call), and
\* no call finds the pool without a frame.
C29_PinNeutral ==
    tree # << >> =>
    /\ status # "crashed"
    /\ status = "running" => \A p \in TreePageIds : tree.pins[p] = 0

\* The slots met from leaf p along next_page_id_, in the order met, each as
\* the iterator that stands on it.
RECURSIVE ChainPositions(_, _, _)
ChainPositions(t, p, fuel) ==
    IF p \notin TreePageIds \ {INVALID_PAGE_ID} \/ fuel = 0 THEN << >>
    ELSE [i \in 1 .. t.nodes[p].size_ |->
              [curr_page_id_ |-> p, curr_page_id_idx_ |-> i - 1]]
         \o ChainPositions(t, t.nodes[p].next_page_id_, fuel - 1)

\* The slots of the tree in scan order.
ScanOrder ==
    ChainPositions(tree, LeftmostLeaf(tree, tree.root_page_id_, Fuel), Fuel)

\* The iterator a scan holds after i keys: on slot i + 1, or the end iterator
\* after the last key.
PositionAfter(i) ==
    IF i < Len(ScanOrder) THEN ScanOrder[i + 1] ELSE NoIterator

\* C30: Begin() stands on the first live key (on the end iterator when there
\* is none), and ++ on the i-th key in scan order moves to the next key, into
\* the next leaf after the last slot of a leaf, and to the end iterator
\* (curr_page_id_ = INVALID_PAGE_ID) after the last key; so a scan of n keys
\* ends after n steps.
C30_ScanVisitsEveryKey ==
    [][ /\ CallBegin => iterator' = PositionAfter(0)
        /\ \A i \in 1 .. Len(ScanOrder) :
               CallIncrement /\ iterator = ScanOrder[i]
               => iterator' = PositionAfter(i)
      ]_vars

\* ------------------------------------- more properties of the hash table

\* The number of low hash bits on which the keys all differ: a split beyond
\* that depth cannot be needed.
HashBits ==
    CHOOSE n \in 0 .. Cardinality(HashKeys) + 1 :
        /\ \A j, k \in HashKeys : j # k => Hash(j) % Pow2(n) # Hash(k) % Pow2(n)
        /\ \A m \in 0 .. (n - 1) :
               \E j, k \in HashKeys : j # k /\ Hash(j) % Pow2(m) = Hash(k) % Pow2(m)

\* C32: every Insert ends, with the key found, every other key found with the
\* value it had (or absent as before), the directory no deeper than the bits
\* that tell the keys apart, and doubled no further than the depth the key's
\* bucket reached by the splits.
C32_InsertSplitsUntilKeysSeparate ==
    [][ \A key \in HashKeys, value \in HashValues :
           ret'.op = "Insert" /\ ret'.result = key /\ CallInsert(key, value)
           => /\ HTFind(page_table_', key).found
              /\ \A k \in HashKeys \ {key} :
                     HTFind(page_table_', k) = HTFind(page_table_, k)
              /\ page_table_'.global_depth_ <= HashBits
              /\ LET b == page_table_'.dir_[IndexOf(page_table_', key) + 1]
                     d == page_table_'.buckets[b].depth_
                 IN  page_table_'.global_depth_ =
                         IF d > page_table_.global_depth_
                         THEN d ELSE page_table_.global_depth_
      ]_vars

\* Keys 0 and 4 fill a bucket and Insert(8) splits it on bit 1, which
\* separates nothing, and again on bit 2: the directory has 8 slots and the
\* three keys are found.
C32_Witness ==
    /\ ret.op = "Insert" /\ ret.result = 8
    /\ page_table_.global_depth_ = 3
    /\ Len(page_table_.buckets) = 4
    /\ \A k \in {0, 4, 8} : HTFind(page_table_, k).found
    /\ \A k \in HashKeys \ {0, 4, 8} : ~HTFind(page_table_, k).found

\* C40: GetNumBuckets() is the number of distinct buckets the directory
\* refers to.
C40_NumBucketsCountsBuckets ==
    page_table_.num_buckets_ =
        Cardinality({ page_table_.dir_[i] : i \in 1 .. Len(page_table_.dir_) })

\* ---------------------------------------- more properties of the replacer

\* C39: whatever the timestamps are, SetEvictable(f, true) on a tracked
\* frame, and RecordAccess(f) on a tracked frame marked evictable, leave f an
\* eviction candidate: in frame_history_set_, which Size counts and Evict
\* draws from.
C39_CandidacyIgnoresTimestamps ==
    [][ \A f \in ReplacerFrames :
           /\ f \in DOMAIN replacer_.frame_index_map_
           /\ \/ CallSetEvictable(f, TRUE)
              \/ /\ replacer_.frame_index_map_[f].is_evictable_
                 /\ CallRecordAccess(f)
           => f \in replacer_'.frame_history_set_
      ]_vars

\* ------------------------------------- more properties of the buffer pool

\* C38: DeletePage calls the replacer's Remove(frame) for the frame of a
\* resident page with pin_count 0; in every reachable state each such frame is
\* untracked or marked evictable, so Remove does not reach exit(1) and the
\* process has not exited.
C38_DeleteNeverExits ==
    /\ status # "exited"
    /\ \A f \in Frames :
           (pages_[f].page_id_ # INVALID_PAGE_ID /\ pages_[f].pin_count_ = 0)
           => ~RemoveExits(replacer_, f)

\* C38 witness: DeletePage has written out the dirty, tracked, unpinned page
\* it deleted, called Remove on its frame and put the frame on the free list,
\* and the process goes on.
C38_Witness ==
    /\ ret.op = "DeletePage" /\ ret.ok /\ ret.io # << >>
    /\ status = "running"
    /\ Len(free_list_) = PoolSize
    /\ DOMAIN replacer_.frame_index_map_ = {}

\* --------------------------------- the mutexes of replacer and hash table
\* Two threads call the replacer and the hash table directly.  Every public
\* operation of either takes the object's latch_ with a lock_guard for the
\* whole call; LRUKReplacer::RecordAccess then calls
\* FrameAccessHistory::RecordAccess, which takes the frame_latch_ of the
\* frame's history with a second lock_guard.

\* The calls a thread may make, each as a script of one call
\* << object, operation, frame id or key >>.
MutexScripts ==
    { << << "replacer_", op, 0 >> >> :
          op \in {"RecordAccess", "SetEvictable", "Evict", "Remove", "Size"} }
    \cup { << << "page_table_", op, 0 >> >> : op \in {"Find", "Insert", "Remove"} }

MutexInit ==
    /\ pages_ = [f \in Frames |-> Page]
    /\ free_list_ = [i \in 1 .. PoolSize |-> i - 1]
    /\ page_table_ = ExtendibleHashTable
    /\ replacer_ = LRUKReplacer(NumFrames)
    /\ next_page_id_ = 0
    /\ disk = [p \in PageIds \cup {INVALID_PAGE_ID} |-> ZeroData]
    /\ clock = 1
    /\ status = "running"
    /\ ret = Ret("Init", FALSE, INVALID_PAGE_ID, << >>)
    /\ held = [p \in PageIds |-> 0]
    /\ Quiescent
    /\ NoIndex

mutex_idle_vars == << pages_, free_list_, next_page_id_, disk, held, latch_,
                     rwlatch_, index_vars >>

\* Thread t starts on a call.
MutexBegin(t) ==
    /\ status = "running"
    /\ pc[t].script = << >>
    /\ \E script \in MutexScripts :
          pc' = [pc EXCEPT ![t] = [script |-> script, at |-> "call"]]
    /\ UNCHANGED << page_table_, replacer_, clock, status, ret, locked,
                    mutex_idle_vars >>

\* std::lock_guard<std::mutex> lock(latch_) at the top of the call: the latch_
\* of the object the call is made on.
MutexLock(t) ==
    /\ status = "running"
    /\ pc[t].script # << >>
    /\ pc[t].at = "call"
    /\ locked[Instr(t)[1]] = 0
    /\ locked' = [locked EXCEPT ![Instr(t)[1]] = t]
    /\ pc' = [pc EXCEPT ![t].at = "latch"]
    /\ UNCHANGED << page_table_, replacer_, clock, status, ret, mutex_idle_vars >>

\* std::lock_guard<std::mutex> lock(frame_latch_) at the top of
\* FrameAccessHistory::RecordAccess, called from LRUKReplacer::RecordAccess
\* on the new or the tracked frame.
FrameLock(t) ==
    /\ status = "running"
    /\ pc[t].script # << >>
    /\ pc[t].at = "latch"
    /\ Instr(t)[1] = "replacer_" /\ Instr(t)[2] = "RecordAccess"
    /\ locked.frame_latch_[Instr(t)[3]] = 0
    /\ locked' = [locked EXCEPT !.frame_latch_[Instr(t)[3]] = t]
    /\ pc' = [pc EXCEPT ![t].at = "frame"]
    /\ UNCHANGED << page_table_, replacer_, clock, status, ret, mutex_idle_vars >>

\* The mutexes after thread t's lock_guards are destroyed.
Unlocked(t) ==
    [replacer_   |-> IF locked.replacer_ = t THEN 0 ELSE locked.replacer_,
     page_table_ |-> IF locked.page_table_ = t THEN 0 ELSE locked.page_table_,
     frame_latch_ |-> [f \in DOMAIN locked.frame_latch_ |->
                          IF locked.frame_latch_[f] = t THEN 0
                          ELSE locked.frame_latch_[f]]]

\* The work of a replacer call under its latch_ (and the frame_latch_).
ReplacerBody(op, frame_id) ==
    /\ UNCHANGED page_table_
    /\ CASE op = "RecordAccess" ->
              /\ \E now \in Now :
                    /\ replacer_' = RecordAccess(replacer_, frame_id, now)
                    /\ clock' = now
              /\ ret' = Ret(op, TRUE, frame_id, << >>)
              /\ UNCHANGED status
         [] op = "SetEvictable" ->
              /\ \E set_evictable \in BOOLEAN :
                    IF frame_id \in DOMAIN replacer_.frame_index_map_
                    THEN /\ replacer_' = SetEvictable(replacer_, frame_id, set_evictable)
                         /\ status' = status
                         /\ ret' = Ret(op, TRUE, frame_id, << >>)
                    ELSE /\ replacer_' = replacer_
                         /\ status' = "crashed"
                         /\ ret' = Ret(op, FALSE, frame_id, << >>)
              /\ UNCHANGED clock
         [] op = "Evict" ->
              /\ replacer_' = Evict(replacer_).replacer
              /\ ret' = Ret(op, Evict(replacer_).ok, Evict(replacer_).frame_id, << >>)
              /\ UNCHANGED << clock, status >>
         [] op = "Remove" ->
              /\ IF RemoveExits(replacer_, frame_id)
                 THEN /\ replacer_' = replacer_
                      /\ status' = "exited"
                      /\ ret' = Ret(op, FALSE, frame_id, << >>)
                 ELSE /\ replacer_' = Remove(replacer_, frame_id)
                      /\ status' = status
                      /\ ret' = Ret(op, TRUE, frame_id, << >>)
              /\ UNCHANGED clock
         [] op = "Size" ->
              /\ ret' = Ret(op, TRUE, Size(replacer_), << >>)
              /\ UNCHANGED << replacer_, clock, status >>

\* The work of a hash table call under its latch_.
HashBody(op, key) ==
    /\ UNCHANGED << replacer_, clock, status >>
    /\ CASE op = "Find" ->
              /\ ret' = Ret(op, HTFind(page_table_, key).found,
                            HTFind(page_table_, key).value, << >>)
              /\ UNCHANGED page_table_
         [] op = "Insert" ->
              /\ \E value \in HashValues :
                    page_table_' = HTInsert(page_table_, key, value)
              /\ ret' = Ret(op, TRUE, key, << >>)
         [] op = "Remove" ->
              /\ page_table_' = HTRemove(page_table_, key)
              /\ ret' = Ret(op, HTFind(page_table_, key).found, key, << >>)

\* The rest of the call and its return, which releases what the thread holds.
MutexBody(t) ==
    /\ status = "running"
    /\ pc[t].script # << >>
    /\ IF Instr(t)[1] = "replacer_" /\ Instr(t)[2] = "RecordAccess"
       THEN pc[t].at = "frame"
       ELSE pc[t].at = "latch"
    /\ IF Instr(t)[1] = "replacer_"
       THEN ReplacerBody(Instr(t)[2], Instr(t)[3])
       ELSE HashBody(Instr(t)[2], Instr(t)[3])
    /\ locked' = Unlocked(t)
    /\ pc' = Return(t)
    /\ UNCHANGED mutex_idle_vars

MutexNext ==
    \E t \in Threads :
        \/ MutexBegin(t)
        \/ MutexLock(t)
        \/ FrameLock(t)
        \/ MutexBody(t)

SpecMutex == MutexInit /\ [][MutexNext]_vars

\* The mutexes and latches thread t holds, each as << name, frame >> (frame 0
\* for those that belong to no frame).
HeldBy(t, mutexes, pool_latch, page_latches) ==
    { << m, 0 >> : m \in { n \in {"replacer_", "page_table_"} : mutexes[n] = t } }
    \cup { << "frame_latch_", f >> : f \in { g \in DOMAIN mutexes.frame_latch_ :
                                               mutexes.frame_latch_[g] = t } }
    \cup { << m, 0 >> : m \in { n \in {"latch_"} : pool_latch = t } }
    \cup { << "rwlatch_", f >> : f \in { g \in DOMAIN page_latches :
                                           \/ page_latches[g].writer = t
                                           \/ t \in page_latches[g].readers } }

\* C31: the replacer latch and the hash table latch are leaves: a thread that
\* holds one of them takes no other lock (pool latch, page rw-latch, frame
\* history latch, the other leaf latch) before it has released it.
C31_LeafLatches ==
    [][ \A t \in Threads :
           (locked.replacer_ = t \/ locked.page_table_ = t)
           => HeldBy(t, locked', latch_', rwlatch_')
                  \subseteq HeldBy(t, locked, latch_, rwlatch_)
      ]_vars

\* ------------------------------------------ more properties of the tree

\* The keys stored in the leaves of the subtree under page p.
RECURSIVE SubtreeKeys(_, _, _)
SubtreeKeys(t, p, fuel) ==
    IF p \notin TreePageIds \ {INVALID_PAGE_ID} \/ fuel = 0 THEN {}
    ELSE IF IsLeafPage(t.nodes[p])
    THEN { KeyAt(t.nodes[p], i) : i \in 0 .. (t.nodes[p].size_ - 1) }
    ELSE UNION { SubtreeKeys(t, ValueAt(t.nodes[p], i), fuel - 1) :
                   i \in 0 .. (t.nodes[p].size_ - 1) }

\* The keys of node n are strictly ascending: all of a leaf's, and those of
\* slots 1 .. size-1 of an internal page (slot 0 holds no key).
KeysAscend(n) ==
    \A i, j \in (IF IsLeafPage(n) THEN 0 ELSE 1) .. (n.size_ - 1) :
        i < j => KeyAt(n, i) < KeyAt(n, j)

\* C33: in every node of the tree the keys are strictly ascending, and for
\* every internal node each key stored under child i is at least the key of
\* slot i (for i > 0) and below the key of slot i + 1 (for i < size - 1).
C33_KeyRanges ==
    (status = "running" /\ tree # << >>)
    => \A p \in Subtree(tree, tree.root_page_id_, Fuel) :
           LET n == tree.nodes[p]
           IN  /\ KeysAscend(n)
               /\ ~IsLeafPage(n)
                  => \A i \in 0 .. (n.size_ - 1) :
                         \A k \in SubtreeKeys(tree, ValueAt(n, i), Fuel) :
                             /\ i > 0 => KeyAt(n, i) <= k
                             /\ i < n.size_ - 1 => k < KeyAt(n, i + 1)

\* The leaf that Insert / Remove of key reaches from the root.
LeafFor(t, key) == Descend(Enter(t), t.root_page_id_, key, Fuel).page

\* The keys in the slots lo .. hi-1 of node n, in slot order.
KeysOf(n, lo, hi) == [i \in 1 .. (hi - lo) |-> KeyAt(n, lo + i - 1)]

\* The slot of a new key in leaf n: the number of its keys below the key.
SlotOf(n, key) == Cardinality({ i \in 0 .. (n.size_ - 1) : KeyAt(n, i) < key })

\* The split point for a new key in the full leaf n.
MidOf(n, key) ==
    IF SlotOf(n, key) > n.size_ \div 2 THEN n.size_ \div 2 + 1 ELSE n.size_ \div 2

\* Sequence s with key put in at its place in the order.
WithKey(s, key) ==
    Ascending({ s[i] : i \in 1 .. Len(s) } \cup {key})

\* Insert of a new key that reaches leaf L of the running tree.
InsertReaches(key, value, L) ==
    /\ tree # << >>
    /\ ret'.op = "Insert" /\ ret'.result = key
    /\ tree.root_page_id_ # INVALID_PAGE_ID
    /\ L = LeafFor(tree, key)
    /\ LeafScan(tree.nodes[L], key) = 0 - 1
    /\ CallTreeInsert(key, value)
    /\ status' = "running"

\* C34: a leaf is split only when Insert reaches a leaf L whose size is
\* leaf_max_size; then with mid = size/2, one more when the new key's slot is
\* past size/2, L keeps its entries [0, mid) and the new right leaf L' holds
\* the entries [mid, size), the new key lands in L' when its slot is past
\* size/2 and in L otherwise, L.next is L', and L'.KeyAt(0) with child L' is
\* in the parent of both (a new internal root when L was the root).
C34_LeafSplit ==
    [][ \A key \in TreeKeys, value \in TreeValues, L \in TreePageIds :
           InsertReaches(key, value, L)
           => LET old == tree.nodes[L]
                  mid == MidOf(old, key)
                  new == tree.next_page_id_
                  past == SlotOf(old, key) > old.size_ \div 2
              IN  IF old.size_ < LeafMaxSize
                  THEN tree'.next_page_id_ = tree.next_page_id_
                  ELSE LET l == tree'.nodes[L]
                           r == tree'.nodes[new]
                           parent == tree'.nodes[l.parent_page_id_]
                       IN  /\ IsLeafPage(r)
                           /\ KeysOf(l, 0, l.size_)
                                = IF past THEN KeysOf(old, 0, mid)
                                  ELSE WithKey(KeysOf(old, 0, mid), key)
                           /\ KeysOf(r, 0, r.size_)
                                = IF past THEN WithKey(KeysOf(old, mid, old.size_), key)
                                  ELSE KeysOf(old, mid, old.size_)
                           /\ l.next_page_id_ = new
                           /\ r.parent_page_id_ = l.parent_page_id_
                           /\ ~IsLeafPage(parent)
                           /\ \E i \in 1 .. (parent.size_ - 1) :
                                  /\ ValueAt(parent, i) = new
                                  /\ KeyAt(parent, i) = KeyAt(r, 0)
                           /\ old.parent_page_id_ = INVALID_PAGE_ID
                                => tree'.root_page_id_ = l.parent_page_id_
      ]_vars

\* C35: after every Insert and Remove that returned, the parent_page_id_ of
\* the root is INVALID_PAGE_ID and that of every other node of the tree is
\* the page id of the internal node that holds it among its children.
C35_ParentPointers ==
    (status = "running" /\ tree # << >> /\ tree.root_page_id_ # INVALID_PAGE_ID)
    => /\ tree.nodes[tree.root_page_id_].parent_page_id_ = INVALID_PAGE_ID
       /\ \A p \in Subtree(tree, tree.root_page_id_, Fuel) :
              ~IsLeafPage(tree.nodes[p])
              => \A i \in 0 .. (tree.nodes[p].size_ - 1) :
                     LET child == ValueAt(tree.nodes[p], i)
                     IN  child \in TreePageIds
                         => tree.nodes[child].parent_page_id_ = p


\* C36: when a Remove that returned leaves the internal root, which had two
\* children, with a single child, that child is the new root: root_page_id_
\* is its page id, its parent_page_id_ is INVALID_PAGE_ID (the tree is one
\* level lower), and GetValue finds every key that is still live.
C36_RootReplacedBySingleChild ==
    [][ \A key \in TreeKeys :
           LET root == tree.root_page_id_
           IN  /\ tree # << >>
               /\ ret'.op = "Remove" /\ ret'.result = key
               /\ root # INVALID_PAGE_ID
               /\ ~IsLeafPage(tree.nodes[root])
               /\ tree.nodes[root].size_ = 2
               /\ CallTreeRemove(key)
               /\ status' = "running"
               /\ tree'.nodes[root].size_ = 1
               => LET child == ValueAt(tree'.nodes[root], 0)
                  IN  /\ tree'.root_page_id_ = child
                      /\ tree'.nodes[child].parent_page_id_ = INVALID_PAGE_ID
                      /\ \A k \in TreeKeys :
                             reference'[k] # NoValue => GetValue(tree', k).found
      ]_vars

\* The keys held by the leaves of the tree.
StoredKeys(t) ==
    IF t.root_page_id_ = INVALID_PAGE_ID THEN {}
    ELSE UNION { { KeyAt(t.nodes[p], j) : j \in 0 .. (t.nodes[p].size_ - 1) } :
                   p \in { q \in Subtree(t, t.root_page_id_, Fuel) :
                             IsLeafPage(t.nodes[q]) } }

\* Remove of a key that no leaf of the tree holds.
RemoveOfAbsentKey(key) ==
    /\ tree # << >>
    /\ ret'.op = "Remove" /\ ret'.result = key
    /\ key \notin StoredKeys(tree)
    /\ CallTreeRemove(key)

\* C37: Remove(k) of a key that is not in the tree returns and changes no
\* node and not the root; on the empty tree it fetches no page either.
C37_RemoveOfAbsentKeyIsNoOp ==
    [][ \A key \in TreeKeys :
           RemoveOfAbsentKey(key)
           => /\ status' = "running"
              /\ tree'.nodes = tree.nodes
              /\ tree'.root_page_id_ = tree.root_page_id_
              /\ tree.root_page_id_ = INVALID_PAGE_ID
                   => /\ tree'.pinned = tree.pinned
                      /\ \A p \in TreePageIds : tree'.pins[p] = 0
      ]_vars

\* --------------------------------------------------------- the tall tree

\* BPlusTree(name, bpm, comparator, TallLeafMaxSize, TallInternalMaxSize) on
\* a pool of TallPoolSize frames.
TallInit ==
    /\ pages_ = [f \in Frames |-> Page]
    /\ free_list_ = [i \in 1 .. PoolSize |-> i - 1]
    /\ page_table_ = ExtendibleHashTable
    /\ replacer_ = LRUKReplacer(PoolSize)
    /\ next_page_id_ = 0
    /\ disk = [p \in PageIds \cup {INVALID_PAGE_ID} |-> ZeroData]
    /\ clock = 0
    /\ status = "running"
    /\ ret = Ret("Init", FALSE, INVALID_PAGE_ID, << >>)
    /\ held = [p \in PageIds |-> 0]
    /\ Quiescent
    /\ tree = [BPlusTree EXCEPT !.leaf_max_size_ = TallLeafMaxSize,
                                !.internal_max_size_ = TallInternalMaxSize,
                                !.pool_size_ = TallPoolSize]
    /\ iterator = NoIterator
    /\ reference = [k \in TallKeys |-> NoValue]

\* Remove is called while the tree has allocated few pages only.
TallRemove(key) ==
    /\ tree.next_page_id_ <= TallRemoveUntil
    /\ CallTreeRemove(key)

TallNext ==
    \/ \E key \in TallKeys, value \in TreeValues : CallTreeInsert(key, value)
    \/ \E key \in TallKeys : TallRemove(key)

SpecTall == TallInit /\ [][TallNext]_vars

====
